---- MODULE Spec2Model ----
(***************************************************************************)
(* Model of the daily-brief cron scheduler.                                *)
(*                                                                         *)
(*   SpecFire  the firing callback of a per-user cron task                 *)
(*             (scheduler.js createUserCronJob) with the Dedup Guard       *)
(*             queries and the DeliveryRecord log (supabase-helper.js).    *)
(*   SpecFireFaults  the same with a delivery-history store whose requests *)
(*             may return an error or raise one.                           *)
(*   SpecSync  the Schedule Synchronizer (scheduler.js syncAllSchedules)   *)
(*             against the registry table user_preferences, with calls     *)
(*             that overlap at the await of the registry read.             *)
(*                                                                         *)
(*   SpecShutdown  the Synchronizer together with gracefulShutdown         *)
(*             (index.js) on SIGINT or SIGTERM.                            *)
(*                                                                         *)
(*   SpecGen   the Generation Coordinator's entry point                    *)
(*             (DailyBriefGenerator.generateDailyBrief): the brief cache,  *)
(*             the in-flight map and calls that overlap at its awaits.     *)
(*                                                                         *)
(*   SpecPipeline  one run of the generation pipeline                      *)
(*             (DailyBriefGenerator.generateBriefContent): the data-source *)
(*             calls with their retries, and the content-generation call.  *)
(*                                                                         *)
(*   SpecQueue  the job queue helper enqueueDueBriefJobs over the          *)
(*             brief_queue table.                                          *)
(*                                                                         *)
(*   SpecJobs  the same with the helpers that change a job's status        *)
(*             (markJobProcessing, completeJob, failJob).                  *)
(*                                                                         *)
(*   SpecHook  the delivery call WebhookClient.sendMessageViaWebhook and   *)
(*             the responses of the external transport.                    *)
(*                                                                         *)
(*   SpecOrder one firing followed through all its calls: the dedup        *)
(*             checks, sendBriefViaWebhook with the generation pipeline    *)
(*             and the delivery call, and the DeliveryRecord write.        *)
(*                                                                         *)
(*   SpecCron  the trigger converter convertToCronTime applied to every    *)
(*             local time hh:mm in zones of whole-hour and other offsets.  *)
(*                                                                         *)
(*   SpecPoll  the enqueue step together with two pollers that run the     *)
(*             poll step of the job queue over the queue helpers.          *)
(*                                                                         *)
(*   SpecEntries  sync cycles over a constant registry whose entries may   *)
(*             have an unknown timezone or a delivery time out of range.   *)
(*                                                                         *)
(*   SpecManual  triggerTestBrief (POST /test-brief) next to the firings   *)
(*             of a scheduled task.                                        *)
(*                                                                         *)
(* Times are UTC epoch seconds; the coordinator's clock is in              *)
(* milliseconds since the start of the run.                                *)
(***************************************************************************)
EXTENDS Integers, Sequences, FiniteSets, TLC

(***************************************************************************)
(* Bounds of the model                                                     *)
(***************************************************************************)
\* concurrent invocations of firing callbacks that the model follows
MaxCallbacks == 2
\* clock advances in one behaviour
MaxAdvances == 2
\* delivery calls in one behaviour
MaxDeliveries == 3
\* DeliveryRecords in table brief_usage
MaxRecords == 3
\* calls of syncAllSchedules that may be in progress at once
MaxSyncCalls == 2
\* changes of the registry in one behaviour
MaxChanges == 2
\* running cron tasks that are no longer referenced by activeTasks
MaxOrphans == 1
\* calls of generateDailyBrief that may be in progress at once
MaxGenCalls == 2
\* calls of generateDailyBrief in one behaviour
MaxEntries == 3
\* calls of enqueueDueBriefJobs in one behaviour
MaxEnqueues == 3
\* advances of now in one behaviour of the job queue
MaxQueueAdvances == 3
\* invocations of sendMessageViaWebhook in one behaviour
MaxHookCalls == 2
\* calls of markJobProcessing, completeJob and failJob in one behaviour
MaxHelperCalls == 2
\* pollers of the job queue that may run at once
MaxPollers == 2
\* poll steps of one poller in one behaviour
MaxPolls == 1
\* calls of enqueueDueBriefJobs in one behaviour of the pollers
MaxPollEnqueues == 2
\* calls of triggerTestBrief in one behaviour
MaxTestBriefs == 1
\* the largest maxRetries a caller passes to retryOperation
MaxAttempts == 4
\* advances of the coordinator's clock in one behaviour
MaxGenAdvances == 3

(***************************************************************************)
(* Program constants and calendar facts                                    *)
(***************************************************************************)
\* seconds in a calendar day (moment startOf("day"))
DAY == 86400
\* cooldown window passed to checkIfSentRecently by the firing callback
COOLDOWN_SECONDS == 3000
\* 2025-07-01T12:00:00Z, the instant at which the modelled runs begin
StartInstant == 1751371200
\* America/New_York daylight-saving time 2025: from 2025-03-09T07:00:00Z ...
NyDstStart == 1741503600
\* ... until 2025-11-02T06:00:00Z
NyDstEnd == 1762063200
\* 2025-01-15T12:00:00Z, an instant of the winter
WinterInstant == 1736942400

Users == {"u1", "u2"}
Zones == {"America/New_York", "Australia/Brisbane"}
\* zones whose offset is not a whole number of hours, and UTC
OtherZones == {"Asia/Kolkata", "Asia/Kathmandu", "UTC"}
Null == "null"

\* steps by which the clock advances: half an hour (inside the cooldown
\* window; two of them leave it) and half a day
Durations == {1800, 43200}

\* the registry rows of the users whose tasks fire (table user_preferences)
UserTimezone(userId) ==
    IF userId = "u1" THEN "America/New_York" ELSE "Australia/Brisbane"

VARIABLES
    now,          \* the wall clock (Date.now(), moment()), UTC epoch seconds
    advances,     \* number of clock advances so far (bounded by MaxAdvances)
    dbFaults,     \* whether the delivery-history store may answer with an error
    brief_usage,  \* table brief_usage: sequence of DeliveryRecords
    callback,     \* per cron task: the state of its (async) firing callback
    deliveries,   \* log of calls of sendBriefViaWebhook made by callbacks
    unhandled,    \* the callbacks whose promise was rejected (unhandledRejection)
    registry,     \* table user_preferences: its rows, at most one per user_id
    changes,      \* number of registry changes so far (bounded by MaxChanges)
    activeTasks,  \* the Map activeTasks: user_id -> id of the stored task
    tasks,        \* the cron tasks that are started and not stopped
    sync,         \* per call of syncAllSchedules in progress: where it stands
    snapshot,     \* the rows returned by the most recent registry read
    completed,    \* whether some call of syncAllSchedules has completed
    proc,         \* the process: running or exited, and its exit code
    clock,        \* Date.now() of the coordinator, ms since the run began
    genAdvances,  \* number of advances of clock so far
    briefCache,   \* the Map briefCache: cacheKey -> [brief, timestamp]
    inFlight,     \* the Map inFlight: cacheKey -> generation promise
    gen,          \* per call of generateDailyBrief: where it stands
    promises,     \* the generation promises made so far (pipeline starts)
    entry,        \* the latest call of generateDailyBrief: number, slot, key
    upstream,     \* number of registry and pipeline calls made so far
    pipe,         \* one run of generateBriefContent: where it stands
    pipeLog,      \* the upstream calls that run has made, in order
    retry,        \* the call of retryOperation in progress
    brief_queue,  \* the rows of table brief_queue
    lastEnqueue,  \* the latest call of enqueueDueBriefJobs and what it returned
    queueAdvances,\* number of advances of now in the queue's runs
    helperCalls,  \* number of calls of markJobProcessing, completeJob, failJob
    poll,         \* per poller of the job queue: where its poll step stands
    hook,         \* the invocation of sendMessageViaWebhook in progress
    hookLog,      \* the invocations that have returned: response and result
    conv,         \* a call of convertToCronTime: its arguments and its result
    firing,       \* the call of sendBriefViaWebhook made by a firing
    testBriefs    \* the calls of triggerTestBrief that have returned

fireVars == <<advances, dbFaults, brief_usage, callback, deliveries, unhandled>>
syncVars == <<registry, changes, activeTasks, tasks, sync, snapshot, completed, proc>>
genVars == <<clock, genAdvances, briefCache, inFlight, gen, promises, entry, upstream>>
pipeVars == <<pipe, pipeLog, retry>>
queueVars == <<brief_queue, lastEnqueue, queueAdvances, helperCalls, poll>>
hookVars == <<hook, hookLog>>
\* the state of the parts that the firing callback, the Synchronizer and the
\* Generation Coordinator's entry point leave alone
moreVars == <<pipeVars, queueVars, hookVars, conv, firing, testBriefs>>
\* everything but the state of a run of generateBriefContent
outsidePipe == <<now, fireVars, syncVars, genVars, queueVars, hookVars, conv, firing, testBriefs>>
\* everything but the clock and the state of the job queue
outsideQueue == <<fireVars, syncVars, genVars, pipeVars, hookVars, conv, firing, testBriefs>>
\* everything but the state of sendMessageViaWebhook
outsideHook == <<now, fireVars, syncVars, genVars, pipeVars, queueVars, conv, firing, testBriefs>>
\* everything but the call of convertToCronTime
outsideConv == <<fireVars, syncVars, genVars, pipeVars, queueVars, hookVars, firing, testBriefs>>
vars == <<now, fireVars, syncVars, genVars, moreVars>>

Callbacks == 1..MaxCallbacks

(***************************************************************************)
(* Time                                                                    *)
(***************************************************************************)
\* a variant of the zone table without daylight-saving time
UtcOffsetStandard(timezone, t) ==
    IF timezone = "America/New_York" THEN -18000
    ELSE IF timezone = "Australia/Brisbane" THEN 36000
    ELSE IF timezone = "Asia/Kolkata" THEN 19800
    ELSE IF timezone = "Asia/Kathmandu" THEN 20700
    ELSE 0

\* UTC offset (seconds) in effect in a zone at a UTC instant; moment-timezone
\* treats a zone it has no data for as UTC.
UtcOffset(timezone, t) ==
    IF timezone = "America/New_York"
    THEN (IF NyDstStart <= t /\ t < NyDstEnd THEN -14400 ELSE -18000)
    ELSE IF timezone = "Australia/Brisbane" THEN 36000
    ELSE IF timezone = "Asia/Kolkata" THEN 19800
    ELSE IF timezone = "Asia/Kathmandu" THEN 20700
    ELSE 0

\* moment().utc().startOf("day")
StartOfUtcDay(t) == (t \div DAY) * DAY

\* the calendar day (days since the epoch) of instant t in a zone
LocalDay(timezone, t) == (t + UtcOffset(timezone, t)) \div DAY

(***************************************************************************)
(* Dedup Guard: queries on brief_usage                                     *)
(***************************************************************************)
\* rows of brief_usage with .eq("user_id", userId).gte("last_used", since)
RowsSince(userId, since) ==
    {i \in DOMAIN brief_usage :
        /\ brief_usage[i].user_id = userId
        /\ brief_usage[i].last_used >= since}

\* outcomes of one request to the store: TRUE answered, FALSE error
DbOutcomes == IF dbFaults THEN BOOLEAN ELSE {TRUE}

\* whether a request to the store raises (the awaited promise rejects)
\* instead of answering
DbThrows == IF dbFaults THEN BOOLEAN ELSE {FALSE}

\* a variant that takes a query the store answers with an error as "sent"
checkIfAlreadySentFailClosed(userId, t, ok) ==
    LET today == StartOfUtcDay(t)
        rows == RowsSince(userId, today)
    IN  ~ok \/ Cardinality(rows) = 1

\* .single(): data is the row when exactly one row matches, else null + error
checkIfAlreadySent(userId, t, ok) ==
    LET today == StartOfUtcDay(t)
        rows == RowsSince(userId, today)
    IN  ok /\ Cardinality(rows) = 1

\* a variant that reads the row the way checkIfAlreadySent does (.single())
checkIfSentRecentlySingle(userId, windowSeconds, t, ok) ==
    LET since == t - windowSeconds
        rows == RowsSince(userId, since)
    IN  ok /\ Cardinality(rows) = 1

\* .limit(1).maybeSingle(): data is a row when at least one row matches
checkIfSentRecently(userId, windowSeconds, t, ok) ==
    LET since == t - windowSeconds
        rows == RowsSince(userId, since)
    IN  ok /\ rows # {}

\* insert of one DeliveryRecord; an insert that errors leaves the table as is
logBriefSent(userId, status, t, ok) ==
    IF ok
    THEN Append(brief_usage, [user_id |-> userId, last_used |-> t, status |-> status])
    ELSE brief_usage

(***************************************************************************)
(* Firing callback of a cron task (scheduler.js 58-123)                    *)
(***************************************************************************)
IdleCallback(user) ==
    [pc |-> "idle", user |-> user, alreadySent |-> FALSE, status |-> Null,
     started |-> 0, priorSuccess |-> FALSE, store |-> "ok"]

\* how the callback's latest request to the store ended: answered ("ok"),
\* answered with an error, or raised
StoreOutcome(ok, thrown) == IF thrown THEN "raised" ELSE IF ok THEN "ok" ELSE "error"

\* some success record of the user lies in the UTC day of instant t
HasSuccessToday(userId, t) ==
    \E i \in DOMAIN brief_usage :
        /\ brief_usage[i].user_id = userId
        /\ brief_usage[i].status = "success"
        /\ StartOfUtcDay(brief_usage[i].last_used) = StartOfUtcDay(t)

\* node-cron invokes the callback: first dedup query (line 61)
Fire(c) ==
    /\ callback[c].pc = "idle"
    /\ Len(deliveries) < MaxDeliveries
    /\ Len(brief_usage) < MaxRecords
    /\ \E ok \in DbOutcomes, thrown \in DbThrows :
        LET cb == callback[c]
        IN  callback' = [callback EXCEPT ![c] =
                IF thrown
                THEN [cb EXCEPT !.pc = "catch", !.started = now, !.store = "raised"]
                ELSE [cb EXCEPT !.pc = "checkRecent",
                           !.alreadySent = checkIfAlreadySent(cb.user.user_id, now, ok),
                           !.started = now,
                           !.priorSuccess = HasSuccessToday(cb.user.user_id, now),
                           !.store = StoreOutcome(ok, FALSE)]]
    /\ UNCHANGED <<now, advances, dbFaults, brief_usage, deliveries, unhandled, syncVars, genVars, moreVars>>

\* a variant of the decision that goes on to the delivery whatever the two
\* checks have answered
CheckRecentIgnored(c) ==
    /\ callback[c].pc = "checkRecent"
    /\ callback' = [callback EXCEPT ![c] = [@ EXCEPT !.pc = "send"]]
    /\ UNCHANGED <<now, advances, dbFaults, brief_usage, deliveries, unhandled, syncVars, genVars, moreVars>>

\* second dedup query and the decision (lines 63-67, 72-76, 111-115)
CheckRecent(c) ==
    /\ callback[c].pc = "checkRecent"
    /\ \E ok \in DbOutcomes, thrown \in DbThrows :
        LET cb == callback[c]
            recent == checkIfSentRecently(cb.user.user_id, COOLDOWN_SECONDS, now, ok)
            next == IF thrown
                    THEN [cb EXCEPT !.pc = "catch"]
                    ELSE IF ~cb.alreadySent /\ ~recent
                    THEN (IF cb.user.slack_user_id = Null
                          THEN [cb EXCEPT !.pc = "log", !.status = "skipped"]
                          ELSE [cb EXCEPT !.pc = "send"])
                    ELSE IdleCallback(cb.user)
        IN  callback' = [callback EXCEPT ![c] =
                [next EXCEPT !.store = StoreOutcome(ok, thrown)]]
    /\ UNCHANGED <<now, advances, dbFaults, brief_usage, deliveries, unhandled, syncVars, genVars, moreVars>>

\* await sendBriefViaWebhook(...) (lines 90-93); it returns a boolean and
\* never throws (webhook-client.js 23-48)
Send(c) ==
    /\ callback[c].pc = "send"
    /\ \E success \in BOOLEAN :
        LET cb == callback[c]
        IN  /\ callback' = [callback EXCEPT ![c] =
                    [cb EXCEPT !.pc = "log",
                               !.status = IF success THEN "success" ELSE "failed"]]
            /\ deliveries' = Append(deliveries,
                    [user_id |-> cb.user.user_id, timezone |-> cb.user.timezone,
                     callback |-> c, started |-> cb.started,
                     priorSuccess |-> cb.priorSuccess])
    /\ UNCHANGED <<now, advances, dbFaults, brief_usage, unhandled, syncVars, genVars, moreVars>>

\* await logBriefSent(user_id, status, ...) (lines 77-82 and 96-100), then
\* the callback returns; a request that raises takes it to the catch block
LogBrief(c) ==
    /\ callback[c].pc = "log"
    /\ \E ok \in DbOutcomes, thrown \in DbThrows :
        IF thrown
        THEN /\ callback' = [callback EXCEPT ![c] = [@ EXCEPT !.pc = "catch", !.store = "raised"]]
             /\ UNCHANGED brief_usage
        ELSE /\ brief_usage' = logBriefSent(callback[c].user.user_id, callback[c].status, now, ok)
             /\ callback' = [callback EXCEPT ![c] =
                    [IdleCallback(callback[c].user) EXCEPT !.store = StoreOutcome(ok, FALSE)]]
    /\ UNCHANGED <<now, advances, dbFaults, deliveries, unhandled, syncVars, genVars, moreVars>>

\* the catch block (lines 116-122): await logBriefSent(user_id, "failed",
\* error.message), outside any try; when that request raises too, the
\* callback's promise is rejected and the process sees an unhandledRejection
\* (index.js 273-281 logs it and goes on)
CatchBlock(c) ==
    /\ callback[c].pc = "catch"
    /\ \E ok \in DbOutcomes, thrown \in DbThrows :
        /\ brief_usage' = IF thrown THEN brief_usage
                          ELSE logBriefSent(callback[c].user.user_id, "failed", now, ok)
        /\ unhandled' = IF thrown THEN unhandled \cup {c} ELSE unhandled
        /\ callback' = [callback EXCEPT ![c] =
                [IdleCallback(callback[c].user) EXCEPT !.store = StoreOutcome(ok, thrown)]]
    /\ UNCHANGED <<now, advances, dbFaults, deliveries, syncVars, genVars, moreVars>>

\* time passes, in steps of half an hour or more; a dedup query is answered
\* within the step it was sent in, while generation and delivery (Send) and
\* the DeliveryRecord insert may straddle steps
Advance ==
    /\ advances < MaxAdvances
    /\ \A c \in Callbacks : callback[c].pc # "checkRecent"
    /\ \E d \in Durations : now' = now + d
    /\ advances' = advances + 1
    /\ UNCHANGED <<dbFaults, brief_usage, callback, deliveries, unhandled, syncVars, genVars, moreVars>>

\* the Synchronizer before initScheduler has run
SyncAtRest ==
    /\ registry = {}
    /\ changes = 0
    /\ activeTasks = << >>
    /\ tasks = {}
    /\ sync = [c \in 1..MaxSyncCalls |-> [pc |-> "idle", users |-> {}, rows |-> {}, failed |-> FALSE, before |-> {}]]
    /\ snapshot = {}
    /\ completed = FALSE
    /\ proc = [state |-> "running", code |-> 0, signal |-> Null]

\* the Generation Coordinator as constructed (webhook-client.js 183-192)
GenAtRest ==
    /\ clock = 0
    /\ genAdvances = 0
    /\ briefCache = << >>
    /\ inFlight = << >>
    /\ gen = [g \in 1..MaxGenCalls |->
            [pc |-> "idle", key |-> Null, calledAt |-> 0, promise |-> 0,
             result |-> 0, fromCache |-> FALSE]]
    /\ promises = <<>>
    /\ entry = [call |-> 0, slot |-> 0, key |-> Null]
    /\ upstream = 0

\* the result of a run of generateBriefContent that has not returned
NoBrief == [kind |-> "none", notice |-> FALSE, unavailable |-> FALSE]

\* no run of generateBriefContent has begun
PipeAtRest ==
    /\ pipe = [pc |-> "idle", next |-> Null, ms |-> 0, emailSummary |-> "unset",
               calendarSummary |-> "unset", result |-> NoBrief]
    /\ pipeLog = <<>>
    /\ retry = [pc |-> "idle", throwOnFailure |-> TRUE, maxRetries |-> 0, baseDelay |-> 0,
                attempt |-> 0, invocations |-> 0, failures |-> 0, delays |-> <<>>,
                value |-> "none", from |-> 0, error |-> 0]

\* table brief_queue is empty and enqueueDueBriefJobs has not been called
QueueAtRest ==
    /\ brief_queue = {}
    /\ lastEnqueue = [call |-> 0, upserts |-> {}, existing |-> {}, inserted |-> 0]
    /\ queueAdvances = 0
    /\ helperCalls = 0
    /\ poll = [p \in 1..MaxPollers |-> [pc |-> "idle", jobs |-> {}, job |-> -1, fetches |-> 0]]

\* sendMessageViaWebhook has not been called
HookAtRest ==
    /\ hook = [pc |-> "idle", calls |-> 0, posts |-> 0, throws |-> 0]
    /\ hookLog = <<>>

\* convertToCronTime is not being followed
ConvAtRest ==
    conv = [timezone |-> Null, timePreference |-> <<>>, cron |-> <<>>, done |-> FALSE]

\* no firing has called sendBriefViaWebhook
FiringAtRest ==
    firing = [pc |-> "idle", source |-> Null, content |-> NoBrief]

\* triggerTestBrief has not been called
TestAtRest ==
    testBriefs = <<>>

MoreAtRest ==
    /\ PipeAtRest
    /\ QueueAtRest
    /\ HookAtRest
    /\ ConvAtRest
    /\ FiringAtRest
    /\ TestAtRest

InitFire ==
    /\ SyncAtRest
    /\ GenAtRest
    /\ MoreAtRest
    /\ now = StartInstant
    /\ advances = 0
    /\ dbFaults = FALSE
    /\ brief_usage = <<>>
    \* the user object each task captured (createUserCronJob); getActiveUsers
    \* only returns rows with a slack_user_id
    /\ \E who \in [Callbacks -> Users] :
        callback = [c \in Callbacks |->
            IdleCallback([user_id |-> who[c], timezone |-> UserTimezone(who[c]),
                          slack_user_id |-> "S"])]
    /\ deliveries = <<>>
    /\ unhandled = {}

NextFire ==
    \/ \E c \in Callbacks : Fire(c)
    \/ \E c \in Callbacks : CheckRecent(c)
    \/ \E c \in Callbacks : Send(c)
    \/ \E c \in Callbacks : LogBrief(c)
    \/ Advance

SpecFire == InitFire /\ [][NextFire]_vars

\* the same, with one cron task per user: no two callbacks of a user overlap
InitFireSolo ==
    /\ InitFire
    /\ \A c, d \in Callbacks : c # d => callback[c].user.user_id # callback[d].user.user_id

SpecFireSolo == InitFireSolo /\ [][NextFire]_vars

\* the firing callbacks of two users, one task each, over a store whose
\* requests may return an error or raise; the runs are followed at one
\* instant of the clock
InitFireFaults ==
    /\ SyncAtRest
    /\ GenAtRest
    /\ MoreAtRest
    /\ now = StartInstant
    /\ advances = 0
    /\ dbFaults = TRUE
    /\ brief_usage = <<>>
    /\ callback = [c \in Callbacks |->
            IdleCallback([user_id |-> IF c = 1 THEN "u1" ELSE "u2",
                          timezone |-> UserTimezone(IF c = 1 THEN "u1" ELSE "u2"),
                          slack_user_id |-> "S"])]
    /\ deliveries = <<>>
    /\ unhandled = {}

NextFireFaults ==
    \/ \E c \in Callbacks : Fire(c)
    \/ \E c \in Callbacks : CheckRecent(c)
    \/ \E c \in Callbacks : Send(c)
    \/ \E c \in Callbacks : LogBrief(c)
    \/ \E c \in Callbacks : CatchBlock(c)

SpecFireFaults == InitFireFaults /\ [][NextFireFaults]_vars

(***************************************************************************)
(* Trigger Converter (scheduler.js 20-46)                                  *)
(***************************************************************************)
\* delivery_time values are strings, modelled as sequences of characters;
\* the values drawn have the form HH:mm
T0800 == <<"0", "8", ":", "0", "0">>
T2130 == <<"2", "1", ":", "3", "0">>
DeliveryTimes == {T0800, T2130}
\* a delivery_time that is null or the empty string (both are falsy)
NoTime == <<>>

NaN == -1
Digits == {"0", "1", "2", "3", "4", "5", "6", "7", "8", "9"}
DigitValue(ch) ==
    CASE ch = "0" -> 0 [] ch = "1" -> 1 [] ch = "2" -> 2 [] ch = "3" -> 3
      [] ch = "4" -> 4 [] ch = "5" -> 5 [] ch = "6" -> 6 [] ch = "7" -> 7
      [] ch = "8" -> 8 [] ch = "9" -> 9

\* the number a string of digits denotes, NaN for anything else
RECURSIVE ToNumber(_)
ToNumber(str) ==
    IF str = <<>> \/ \E i \in DOMAIN str : str[i] \notin Digits THEN NaN
    ELSE IF Len(str) = 1 THEN DigitValue(str[1])
    ELSE 10 * ToNumber(SubSeq(str, 1, Len(str) - 1)) + DigitValue(str[Len(str)])

\* timePreference.split(":")
RECURSIVE Split(_)
Split(str) ==
    IF \A i \in DOMAIN str : str[i] # ":" THEN <<str>>
    ELSE LET k == CHOOSE i \in DOMAIN str :
                    str[i] = ":" /\ \A j \in 1..(i - 1) : str[j] # ":"
         IN  <<SubSeq(str, 1, k - 1)>> \o Split(SubSeq(str, k + 1, Len(str)))

\* a variant of the converter that shifts by the whole hours of the offset
convertToCronTimeWholeHours(timePreference, timezone, t) ==
    LET parts == Split(timePreference)
        hours == ToNumber(parts[1])
        minutes == IF Len(parts) >= 2 THEN ToNumber(parts[2]) ELSE NaN
        wallClock == LocalDay(timezone, t) * DAY + hours * 3600 + minutes * 60
        offset == UtcOffset(timezone, wallClock - UtcOffset(timezone, t))
        utcTime == wallClock - (offset \div 3600) * 3600
    IN  IF hours = NaN \/ minutes = NaN \/ hours > 23 \/ minutes > 59
        THEN <<NaN, NaN>>
        ELSE <<(utcTime % 3600) \div 60, (utcTime % DAY) \div 3600>>

\* the cron expression "<minute> <hour> * * *" as <<minute, hour>>, computed
\* against today's date in the user's timezone at instant t
convertToCronTime(timePreference, timezone, t) ==
    LET parts == Split(timePreference)
        hours == ToNumber(parts[1])
        minutes == IF Len(parts) >= 2 THEN ToNumber(parts[2]) ELSE NaN
        todayInUserTz == LocalDay(timezone, t)
        wallClock == todayInUserTz * DAY + hours * 3600 + minutes * 60
        offset == UtcOffset(timezone, wallClock - UtcOffset(timezone, t))
        utcTime == wallClock - offset
    IN  IF hours = NaN \/ minutes = NaN \/ hours > 23 \/ minutes > 59
        THEN <<NaN, NaN>>
        ELSE <<(utcTime % 3600) \div 60, (utcTime % DAY) \div 3600>>

(***************************************************************************)
(* Registry (supabase-helper.js 64-97)                                     *)
(***************************************************************************)
Row(userId, timezone, deliveryTime, slackUserId) ==
    [user_id |-> userId, timezone |-> timezone, delivery_time |-> deliveryTime,
     slack_user_id |-> slackUserId]

\* the rows a user may have in user_preferences; user_id is the table's key
\* (updateUserPreference upserts on it)
RowsOf(userId) ==
    {Row(userId, tz, dt, sl) :
        tz \in {"America/New_York", Null}, dt \in DeliveryTimes \cup {NoTime},
        sl \in {"S", Null}}

\* a row without user_id, its other fields present
NoIdRow == Row(Null, "America/New_York", T0800, "S")

\* a variant of getActiveUsers that returns the rows as read
getActiveUsersUnfiltered(ok) ==
    IF ~ok THEN {}
    ELSE registry

\* getActiveUsers: [] on error, else the rows that have a slack_user_id
getActiveUsers(ok) ==
    IF ~ok THEN {}
    ELSE {r \in registry : r.slack_user_id # Null}

\* a change of the table by the main bot (updateUserPreference or a delete)
RegistryChange ==
    /\ changes < MaxChanges
    /\ \E u \in Users :
        LET others == {r \in registry : r.user_id # u}
        IN  \/ \E r \in RowsOf(u) \ registry : registry' = others \cup {r}
            \/ others # registry /\ registry' = others
            \/ NoIdRow \notin registry /\ registry' = registry \cup {NoIdRow}
    /\ changes' = changes + 1
    /\ UNCHANGED <<now, fireVars, genVars, moreVars, activeTasks, tasks, sync, snapshot, completed, proc>>

(***************************************************************************)
(* Schedule Synchronizer (scheduler.js 49-57, 134-187)                     *)
(***************************************************************************)
SyncCalls == 1..MaxSyncCalls

\* the process has not exited: its timers fire and its callbacks resume
Alive == proc.state # "exited"

\* the tasks stored in activeTasks
StoredIds == {activeTasks[u] : u \in DOMAIN activeTasks}

\* running tasks that activeTasks no longer refers to
Orphans == {t \in tasks : t.id \notin StoredIds}

\* the validation of line 153
HasRequiredFields(user) ==
    user.user_id # Null /\ user.delivery_time # NoTime /\ user.timezone # Null

\* createUserCronJob: the task for a user object
createUserCronJob(user, id, t) ==
    LET cronExpression == convertToCronTime(user.delivery_time, user.timezone, t)
    IN  [id |-> id, user |-> user, cron |-> cronExpression]

\* cron.schedule rejects an expression with NaN fields: it throws
ScheduleThrows(task) == task.cron = <<NaN, NaN>>

\* an id no running task has
FreshId(running) ==
    CHOOSE i \in 1..(Cardinality(running) + 1) : \A t \in running : t.id # i

\* the loop of lines 150-179 over the users not yet visited; st is the pair
\* of the running tasks and the Map
RECURSIVE ScheduleUsers(_, _, _)
ScheduleUsers(users, st, t) ==
    IF users = {} THEN st
    ELSE LET user == CHOOSE r \in users : TRUE
             task == createUserCronJob(user, FreshId(st.tasks), t)
             next == IF ~HasRequiredFields(user) \/ ScheduleThrows(task) THEN st
                     ELSE [tasks |-> st.tasks \cup {task},
                           active |-> [u \in DOMAIN st.active \cup {user.user_id} |->
                                IF u = user.user_id THEN task.id ELSE st.active[u]]]
         IN  ScheduleUsers(users \ {user}, next, t)

\* syncAllSchedules is called (hourly timer, change notification, startup
\* or POST /sync): stop every stored task, clear the Map, send the registry
\* read (lines 137-146)
SyncStart(c) ==
    /\ Alive
    /\ sync[c].pc = "idle"
    /\ Cardinality(Orphans) <= MaxOrphans
    /\ tasks' = {t \in tasks : t.id \notin StoredIds}
    /\ activeTasks' = << >>
    /\ sync' = [sync EXCEPT ![c] =
            [pc |-> "await", users |-> {}, rows |-> {}, failed |-> FALSE, before |-> DOMAIN activeTasks]]
    /\ UNCHANGED <<now, fireVars, genVars, moreVars, registry, changes, snapshot, completed, proc>>

\* the registry answers the read of call c (supabase-helper.js 69-96)
RegistryRead(c) ==
    /\ Alive
    /\ sync[c].pc = "await"
    /\ \E ok \in BOOLEAN :
        /\ sync' = [sync EXCEPT ![c] =
                [@ EXCEPT !.pc = "resume", !.users = getActiveUsers(ok),
                           !.rows = IF ok THEN registry ELSE {}, !.failed = ~ok]]
        /\ snapshot' = IF ok THEN registry ELSE snapshot
    /\ UNCHANGED <<now, fireVars, genVars, moreVars, registry, changes, activeTasks, tasks, completed, proc>>

\* call c resumes after the await and installs the tasks (lines 147-183)
SyncResume(c) ==
    /\ Alive
    /\ sync[c].pc = "resume"
    /\ LET done == ScheduleUsers(sync[c].users, [tasks |-> tasks, active |-> activeTasks], now)
       IN  /\ tasks' = done.tasks
           /\ activeTasks' = done.active
    /\ sync' = [sync EXCEPT ![c] = [pc |-> "idle", users |-> {}, rows |-> {}, failed |-> FALSE, before |-> {}]]
    /\ completed' = TRUE
    /\ UNCHANGED <<now, fireVars, genVars, moreVars, registry, changes, snapshot, proc>>

\* the firing side is not followed in SpecSync
FireAtRest ==
    /\ advances = 0
    /\ dbFaults = FALSE
    /\ brief_usage = <<>>
    /\ callback = << >>
    /\ deliveries = <<>>
    /\ unhandled = {}

InitSync ==
    /\ now = StartInstant
    /\ GenAtRest
    /\ MoreAtRest
    /\ FireAtRest
    /\ SyncAtRest

NextSync ==
    \/ RegistryChange
    \/ \E c \in SyncCalls : SyncStart(c)
    \/ \E c \in SyncCalls : RegistryRead(c)
    \/ \E c \in SyncCalls : SyncResume(c)

SpecSync == InitSync /\ [][NextSync]_vars

(***************************************************************************)
(* Shutdown (index.js 225-260, scheduler.js 207-217)                       *)
(***************************************************************************)
\* stopAllTasks: stop every task stored in the Map, clear the Map; st is the
\* pair of the running tasks and the Map
stopAllTasks(st) ==
    [tasks |-> {t \in st.tasks : \A u \in DOMAIN st.active : st.active[u] # t.id},
     active |-> << >>]

\* a variant of gracefulShutdown in which server.close succeeds and the exit
\* is left to the 2 s timer
GracefulShutdownDeferredExit(signal) ==
    /\ proc.state = "running"
    /\ LET done == stopAllTasks([tasks |-> tasks, active |-> activeTasks])
       IN  /\ tasks' = done.tasks
           /\ activeTasks' = done.active
    /\ proc' = [state |-> "closing", code |-> 0, signal |-> signal]
    /\ UNCHANGED <<now, fireVars, genVars, moreVars, registry, changes, sync, snapshot, completed>>

\* gracefulShutdown(signal), all in one turn of the event loop: stopAllTasks
\* (line 242); server.close (line 246) is called on the module's const
\* server, which is the promise of line 361 and has no close, so a TypeError
\* is thrown; the catch calls process.exit(1) (line 258)
GracefulShutdown(signal) ==
    /\ proc.state = "running"
    /\ LET done == stopAllTasks([tasks |-> tasks, active |-> activeTasks])
       IN  /\ tasks' = done.tasks
           /\ activeTasks' = done.active
    /\ proc' = [state |-> "exited", code |-> 1, signal |-> signal]
    /\ UNCHANGED <<now, fireVars, genVars, moreVars, registry, changes, sync, snapshot, completed>>

NextShutdown ==
    \/ RegistryChange
    \/ \E c \in SyncCalls : SyncStart(c)
    \/ \E c \in SyncCalls : RegistryRead(c)
    \/ \E c \in SyncCalls : SyncResume(c)
    \/ \E signal \in {"SIGINT", "SIGTERM"} : GracefulShutdown(signal)

SpecShutdown == InitSync /\ [][NextShutdown]_vars

(***************************************************************************)
(* Manual trigger: triggerTestBrief (scheduler.js 282-319), called by      *)
(* POST /test-brief (index.js 186-222), next to the scheduled firings      *)
(***************************************************************************)
\* a variant of triggerTestBrief that records the delivery it has made
TriggerTestBriefLogged(userId) ==
    /\ Len(testBriefs) < MaxTestBriefs
    /\ Len(deliveries) < MaxDeliveries
    /\ Len(brief_usage) < MaxRecords
    /\ \E ok \in BOOLEAN, success \in BOOLEAN :
        LET users == getActiveUsers(ok)
            found == {u \in users : u.user_id = userId /\ u.slack_user_id # Null}
        IN  /\ testBriefs' = Append(testBriefs,
                    [user_id |-> userId, at |-> now, found |-> found # {},
                     returned |-> found # {} /\ success])
            /\ deliveries' =
                    IF found = {} THEN deliveries
                    ELSE Append(deliveries,
                            [user_id |-> userId, timezone |-> UserTimezone(userId),
                             callback |-> 0, started |-> now,
                             priorSuccess |-> HasSuccessToday(userId, now)])
            /\ brief_usage' =
                    IF found = {} THEN brief_usage
                    ELSE logBriefSent(userId, IF success THEN "success" ELSE "failed", now, TRUE)
    /\ UNCHANGED <<now, advances, dbFaults, callback, unhandled, syncVars, genVars,
                   pipeVars, queueVars, hookVars, conv, firing>>

\* triggerTestBrief(userId): read the registry, find the user's row, call
\* sendBriefViaWebhook and return what it returned; false when the row is not
\* found or has no slack_user_id (the thrown Error is caught, lines 312-318).
\* Between its two awaits the function changes nothing the scheduler reads.
TriggerTestBrief(userId) ==
    /\ Len(testBriefs) < MaxTestBriefs
    /\ Len(deliveries) < MaxDeliveries
    /\ \E ok \in BOOLEAN, success \in BOOLEAN :
        LET users == getActiveUsers(ok)
            found == {u \in users : u.user_id = userId /\ u.slack_user_id # Null}
        IN  /\ testBriefs' = Append(testBriefs,
                    [user_id |-> userId, at |-> now, found |-> found # {},
                     returned |-> found # {} /\ success])
            /\ deliveries' =
                    IF found = {} THEN deliveries
                    ELSE Append(deliveries,
                            [user_id |-> userId, timezone |-> UserTimezone(userId),
                             callback |-> 0, started |-> now,
                             priorSuccess |-> HasSuccessToday(userId, now)])
    /\ UNCHANGED <<now, advances, dbFaults, brief_usage, callback, unhandled, syncVars, genVars,
                   pipeVars, queueVars, hookVars, conv, firing>>

\* the scheduler after a sync cycle over the entries of the two users, each
\* with its task, and an empty delivery history
InitManual ==
    /\ GenAtRest
    /\ MoreAtRest
    /\ now = StartInstant
    /\ advances = 0
    /\ dbFaults = FALSE
    /\ brief_usage = <<>>
    /\ callback = [c \in Callbacks |->
            IdleCallback([user_id |-> IF c = 1 THEN "u1" ELSE "u2",
                          timezone |-> UserTimezone(IF c = 1 THEN "u1" ELSE "u2"),
                          slack_user_id |-> "S"])]
    /\ deliveries = <<>>
    /\ unhandled = {}
    /\ registry = {Row(u, UserTimezone(u), T0800, "S") : u \in Users}
    /\ LET done == ScheduleUsers(registry, [tasks |-> {}, active |-> << >>], now)
       IN  /\ tasks = done.tasks
           /\ activeTasks = done.active
    /\ changes = 0
    /\ sync = [c \in 1..MaxSyncCalls |-> [pc |-> "idle", users |-> {}, rows |-> {}, failed |-> FALSE, before |-> {}]]
    /\ snapshot = registry
    /\ completed = TRUE
    /\ proc = [state |-> "running", code |-> 0, signal |-> Null]

\* the firings of the task of u1, and manual triggers for either user
NextManual ==
    \/ Fire(1)
    \/ CheckRecent(1)
    \/ Send(1)
    \/ LogBrief(1)
    \/ Advance
    \/ \E u \in Users : TriggerTestBrief(u)

SpecManual == InitManual /\ [][NextManual]_vars

(***************************************************************************)
(* Sync cycles over a registry that does not change and that may hold      *)
(* entries with a timezone moment-timezone has no data for, or with a      *)
(* delivery time that is not a time of day                                 *)
(***************************************************************************)
T2500 == <<"2", "5", ":", "0", "0">>

\* the rows a user may have: timezone known or unknown, delivery time a time
\* of day or not
EntryRows(userId) ==
    {Row(userId, tz, dt, "S") : tz \in {UserTimezone(userId), "Mars/Phobos"},
                               dt \in {T0800, T2500}}

InitEntries ==
    /\ now = StartInstant
    /\ GenAtRest
    /\ MoreAtRest
    /\ FireAtRest
    /\ \E rows \in [Users -> UNION {EntryRows(u) : u \in Users}] :
        /\ \A u \in Users : rows[u] \in EntryRows(u)
        /\ registry = {rows[u] : u \in Users}
    /\ changes = 0
    /\ activeTasks = << >>
    /\ tasks = {}
    /\ sync = [c \in 1..MaxSyncCalls |-> [pc |-> "idle", users |-> {}, rows |-> {}, failed |-> FALSE, before |-> {}]]
    /\ snapshot = {}
    /\ completed = FALSE
    /\ proc = [state |-> "running", code |-> 0, signal |-> Null]

NextEntries ==
    \/ \E c \in SyncCalls : SyncStart(c)
    \/ \E c \in SyncCalls : RegistryRead(c)
    \/ \E c \in SyncCalls : SyncResume(c)

SpecEntries == InitEntries /\ [][NextEntries]_vars

\* the timezone identifier is one the zone data knows
IsRecognized(timezone) == timezone \in Zones \cup OtherZones

\* the delivery time has the form HH:mm of a time of day
IsTimeOfDay(str) ==
    LET parts == Split(str)
    IN  /\ Len(parts) = 2
        /\ ToNumber(parts[1]) \in 0..23
        /\ ToNumber(parts[2]) \in 0..59

IsValidEntry(r) ==
    HasRequiredFields(r) /\ IsRecognized(r.timezone) /\ IsTimeOfDay(r.delivery_time)

\* C34: no trigger is installed for a registry entry whose timezone is
\* unrecognized or whose delivery time is malformed, and a sync cycle that
\* meets such an entry still installs the triggers of the valid entries.
C34_BadEntryInstallsNothing ==
    /\ [](\A t \in tasks : IsValidEntry(t.user))
    /\ [][\A c \in SyncCalls :
            (sync[c].pc = "resume" /\ sync'[c].pc = "idle") =>
                \A r \in sync[c].users :
                    IsValidEntry(r) =>
                        /\ r.user_id \in DOMAIN activeTasks'
                        /\ \E t \in tasks' : t.id = activeTasks'[r.user_id] /\ t.user = r]_vars

\* C35: a user whose entry is valid and unchanged, and who had a trigger
\* when a sync cycle began, has a running trigger at every moment of the
\* cycle, so that a firing instant inside the cycle still produces a firing.
C35_ArmedThroughoutSync ==
    \A c \in SyncCalls :
        sync[c].pc # "idle" =>
            \A r \in registry :
                (IsValidEntry(r) /\ r.user_id \in sync[c].before) =>
                    \E t \in tasks : t.user = r

(***************************************************************************)
(* Generation Coordinator: generateDailyBrief (webhook-client.js 197-277)  *)
(***************************************************************************)
\* this.CACHE_DURATION, milliseconds
CACHE_DURATION == 30000

\* cache keys `${userEmail}:${userId || "unknown"}`
CacheKeys == {"a@x.io:unknown", "b@x.io:unknown"}

GenCalls == 1..MaxGenCalls

\* steps of the coordinator's clock: inside the cache TTL, and the TTL
GenDurations == {10000, 30000}

\* a Map without key k
Without(map, k) == [j \in DOMAIN map \ {k} |-> map[j]]

\* a Map with key k set to v
With(map, k, v) == [j \in DOMAIN map \cup {k} |-> IF j = k THEN v ELSE map[j]]

\* the test of lines 204-206: an entry exists and is younger than the TTL
CacheHit(k, t) ==
    k \in DOMAIN briefCache /\ t - briefCache[k].timestamp < CACHE_DURATION

\* cleanupCache (lines 619-633) applied to a cache at time t
cleanupCache(cache, t) ==
    [j \in {i \in DOMAIN cache : ~(t - cache[i].timestamp > CACHE_DURATION)} |-> cache[j]]

IdleGen(result, fromCache) ==
    [pc |-> "idle", key |-> Null, calledAt |-> 0, promise |-> 0,
     result |-> result, fromCache |-> fromCache]

\* a variant of the cache-hit return that evicts the entry it returns
ReturnCachedAndEvict(g, k) ==
    /\ gen' = [gen EXCEPT ![g] = IdleGen(briefCache[k].brief, TRUE)]
    /\ briefCache' = Without(briefCache, k)
    /\ UNCHANGED upstream

\* the cache-hit return of lines 207-208: return cachedData.brief
ReturnCached(g, k) ==
    /\ gen' = [gen EXCEPT ![g] = IdleGen(briefCache[k].brief, TRUE)]
    /\ UNCHANGED <<briefCache, upstream>>

\* generateDailyBrief(userEmail) is called: the synchronous part up to the
\* first await (lines 197-231)
GenerateDailyBrief(g, k) ==
    /\ gen[g].pc = "idle"
    /\ entry.call < MaxEntries
    /\ entry' = [call |-> entry.call + 1, slot |-> g, key |-> k]
    /\ IF CacheHit(k, clock)
       THEN ReturnCached(g, k)
       ELSE \* an expired entry is deleted; then await the in-flight promise,
            \* or else send getUserPreferences
            /\ briefCache' = Without(briefCache, k)
            /\ IF k \in DOMAIN inFlight
               THEN /\ gen' = [gen EXCEPT ![g] =
                            [pc |-> "awaitInFlight", key |-> k, calledAt |-> clock,
                             promise |-> inFlight[k],
                             result |-> 0, fromCache |-> FALSE]]
                    /\ UNCHANGED upstream
               ELSE /\ gen' = [gen EXCEPT ![g] =
                            [pc |-> "prefs", key |-> k, calledAt |-> clock, promise |-> 0,
                             result |-> 0, fromCache |-> FALSE]]
                    /\ upstream' = upstream + 1
    /\ UNCHANGED <<now, fireVars, syncVars, moreVars, clock, genAdvances, inFlight, promises>>

\* getUserPreferences has answered: the call starts the pipeline
\* (generateBriefContent), registers its promise and awaits it (lines 231-256)
StartGeneration(g) ==
    /\ gen[g].pc = "prefs"
    /\ LET p == Len(promises) + 1
       IN  /\ promises' = Append(promises,
                    [key |-> gen[g].key, calledAt |-> gen[g].calledAt,
                     startedAt |-> clock, settledAt |-> -1])
           /\ inFlight' = With(inFlight, gen[g].key, p)
           /\ gen' = [gen EXCEPT ![g] = [@ EXCEPT !.pc = "generating", !.promise = p]]
    /\ upstream' = upstream + 1
    /\ UNCHANGED <<now, fireVars, syncVars, moreVars, clock, genAdvances, briefCache, entry>>

\* the promise of call g is fulfilled (generateBriefContent catches every
\* error and returns a brief): g caches the brief, cleans the cache, removes
\* the in-flight entry of its key and returns (lines 256-276); the calls
\* awaiting the same promise return its value (line 219)
GenerationSettles(g) ==
    /\ gen[g].pc = "generating"
    /\ LET p == gen[g].promise
           k == gen[g].key
           cached == With(briefCache, k, [brief |-> p, timestamp |-> promises[p].startedAt])
       IN  /\ briefCache' = cleanupCache(cached, clock)
           /\ inFlight' = Without(inFlight, k)
           /\ promises' = [promises EXCEPT ![p].settledAt = clock]
           /\ gen' = [h \in GenCalls |->
                    IF h = g \/ (gen[h].pc = "awaitInFlight" /\ gen[h].promise = p)
                    THEN IdleGen(p, FALSE)
                    ELSE gen[h]]
    /\ UNCHANGED <<now, fireVars, syncVars, moreVars, clock, genAdvances, entry, upstream>>

\* time passes
GenAdvance ==
    /\ genAdvances < MaxGenAdvances
    /\ \E d \in GenDurations : clock' = clock + d
    /\ genAdvances' = genAdvances + 1
    /\ UNCHANGED <<now, fireVars, syncVars, moreVars, briefCache, inFlight, gen, promises, entry, upstream>>

InitGen ==
    /\ now = StartInstant
    /\ FireAtRest
    /\ SyncAtRest
    /\ GenAtRest
    /\ MoreAtRest

NextGen ==
    \/ \E g \in GenCalls, k \in CacheKeys : GenerateDailyBrief(g, k)
    \/ \E g \in GenCalls : StartGeneration(g)
    \/ \E g \in GenCalls : GenerationSettles(g)
    \/ GenAdvance

SpecGen == InitGen /\ [][NextGen]_vars

(***************************************************************************)
(* Claims about the firing callback and the Dedup Guard (SpecFire)         *)
(***************************************************************************)
\* the delivery calls made for one user
DeliveriesOf(userId) == {i \in DOMAIN deliveries : deliveries[i].user_id = userId}

\* C1: once a success DeliveryRecord exists for a user in a UTC day, no
\* firing of that user that starts later in the same UTC day calls
\* sendBriefViaWebhook, however many records the user has that day.
C1_NoDeliveryAfterSuccessToday ==
    \A i \in DOMAIN deliveries : ~deliveries[i].priorSuccess

\* C2: of two firings of one user that start within the cooldown window of
\* each other (also at the same instant), exactly one calls the delivery
\* transport; stated here as: they never both call it.
C2_OneDeliveryWithinCooldown ==
    \A u \in Users : \A i, j \in DeliveriesOf(u) :
        i # j =>
            \/ deliveries[i].started - deliveries[j].started > COOLDOWN_SECONDS
            \/ deliveries[j].started - deliveries[i].started > COOLDOWN_SECONDS

\* C3: the firings of a user lead to at most one delivery call per calendar
\* day of the user's own timezone.
C3_OneDeliveryPerLocalDay ==
    \A u \in Users : \A i, j \in DeliveriesOf(u) :
        i # j =>
            LocalDay(deliveries[i].timezone, deliveries[i].started)
                # LocalDay(deliveries[j].timezone, deliveries[j].started)

(***************************************************************************)
(* Claims about the Schedule Synchronizer (SpecSync)                       *)
(***************************************************************************)
\* the entries of a snapshot that have user_id, delivery_time, timezone and
\* slack_user_id all present
CompleteEntries(rows) ==
    {r \in rows : HasRequiredFields(r) /\ r.slack_user_id # Null}

\* call c completes in this step
Completes(c) == sync[c].pc = "resume" /\ sync'[c].pc = "idle"

\* C4: when a sync cycle completes, the userIds that have an active trigger
\* are exactly the entries of that cycle's snapshot with all four fields
\* present.
C4_ActiveSetEqualsCompleteEntries ==
    [][\A c \in SyncCalls :
        (Completes(c) /\ ~sync[c].failed) =>
            DOMAIN activeTasks' = {r.user_id : r \in CompleteEntries(sync[c].users)}]_vars

\* C5: in every reachable state at most one running trigger exists per
\* userId, and every running trigger is the handle stored in activeTasks
\* under its userId.
C5_NoOrphanedRunningTrigger ==
    /\ \A t1, t2 \in tasks : t1.user.user_id = t2.user.user_id => t1 = t2
    /\ \A t \in tasks :
        /\ t.user.user_id \in DOMAIN activeTasks
        /\ activeTasks[t.user.user_id] = t.id

\* C6: at most one sync cycle is in progress at any time.
C6_SingleFlightSync ==
    Cardinality({c \in SyncCalls : sync[c].pc # "idle"}) <= 1

\* C7: when the registry read of a cycle fails, every trigger that was
\* active before the cycle is still installed and running after it.
C7_FailedReadKeepsTriggers ==
    [][\A c \in SyncCalls :
        (Completes(c) /\ sync[c].failed) =>
            \A u \in sync[c].before :
                /\ u \in DOMAIN activeTasks'
                /\ \E t \in tasks' : t.id = activeTasks'[u] /\ t.user.user_id = u]_vars

\* C8: once a sync cycle has completed and none is in progress, every
\* running trigger belongs to a user of the most recent registry snapshot
\* and was computed from that snapshot's timezone and delivery_time.
C8_NoStaleTrigger ==
    (completed /\ \A c \in SyncCalls : sync[c].pc = "idle") =>
        \A t \in tasks : \E r \in snapshot :
            /\ r.user_id = t.user.user_id
            /\ r.timezone = t.user.timezone
            /\ r.delivery_time = t.user.delivery_time

(***************************************************************************)
(* Claims about the Generation Coordinator                                 *)
(***************************************************************************)
\* the calls that started pipelines p and q were in progress at the same
\* time: each began before the other returned (a call that begins at the
\* instant another returns comes after it)
CallsOverlap(p, q) ==
    /\ (promises[p].settledAt = -1 \/ promises[q].calledAt < promises[p].settledAt)
    /\ (promises[q].settledAt = -1 \/ promises[p].calledAt < promises[q].settledAt)

\* the calls that started pipelines p and q began within the cache TTL of
\* one another
CallsWithinTtl(p, q) ==
    /\ promises[p].calledAt - promises[q].calledAt < CACHE_DURATION
    /\ promises[q].calledAt - promises[p].calledAt < CACHE_DURATION

\* C9: generateDailyBrief calls for the same cache key that overlap in time
\* or start within the cache TTL of one another start the generation
\* pipeline once: no two pipeline starts for one key come from such calls.
C9_OnePipelineStartPerKey ==
    \A p, q \in DOMAIN promises :
        (p # q /\ promises[p].key = promises[q].key)
            => ~(CallsOverlap(p, q) \/ CallsWithinTtl(p, q))

\* C10: a call of generateDailyBrief made while the cache holds an entry for
\* its key younger than CACHE_DURATION returns that entry's content, makes no
\* registry or pipeline call, starts no generation and leaves the cache and
\* the in-flight map unchanged.
C10_FreshEntryIsReturnedUntouched ==
    [][entry'.call # entry.call =>
        LET g == entry'.slot
            k == entry'.key
        IN  (k \in DOMAIN briefCache /\ clock - briefCache[k].timestamp < CACHE_DURATION)
                => /\ gen'[g].pc = "idle"
                   /\ gen'[g].result = briefCache[k].brief
                   /\ briefCache' = briefCache
                   /\ inFlight' = inFlight
                   /\ promises' = promises
                   /\ upstream' = upstream]_vars

\* a call has just returned the content of a cache entry that was generated
\* earlier and is still in the cache
C10_Witness ==
    /\ entry.call > 1
    /\ entry.key \in DOMAIN briefCache
    /\ clock - briefCache[entry.key].timestamp < CACHE_DURATION
    /\ gen[entry.slot].pc = "idle"
    /\ gen[entry.slot].fromCache
    /\ gen[entry.slot].result = briefCache[entry.key].brief

\* the calls of generateDailyBrief in progress for key k
CallsInProgress(k) == {g \in GenCalls : gen[g].pc # "idle" /\ gen[g].key = k}

\* C39: the in-flight map has no entry for a key for which no call of
\* generateDailyBrief is in progress, and while a generation for a key is
\* running the map holds that generation's promise under the key.
C39_InFlightTracksGenerations ==
    /\ \A k \in DOMAIN inFlight : CallsInProgress(k) # {}
    /\ \A g \in GenCalls :
            gen[g].pc = "generating" =>
                /\ gen[g].key \in DOMAIN inFlight
                /\ inFlight[gen[g].key] = gen[g].promise

(***************************************************************************)
(* Generation pipeline: generateBriefContent (webhook-client.js 282-310),  *)
(* gatherGmailData (315-375), gatherCalendarData (380-420),                *)
(* generateAIDailyBrief (445-497), generateBasicBrief (556-576) and        *)
(* retryOperation (588-614)                                                *)
(***************************************************************************)
\* maxRetries, the default of retryOperation
MAX_RETRIES == 3

\* the data-source calls of gatherGmailData, in program order
GmailCalls == <<"unread", "important", "vip">>

\* the data-source calls of gatherCalendarData, in program order
CalendarCalls == <<"today", "upcoming">>

SourceCalls == {"unread", "important", "vip", "today", "upcoming"}

\* error.message of the errors that axios, the Anthropic client and the
\* runtime raise: never empty
ErrorMessages == {"timeout of 30000ms exceeded", "529 overloaded"}

\* a variant of the fallback brief that leaves the notice line out
generateBasicBriefWithoutNotice(errorMessage) ==
    [kind |-> "basic", notice |-> FALSE, unavailable |-> TRUE]

\* generateBasicBrief: the templated brief; the notice line is written when
\* errorMessage is truthy, the "Unable to access" lines always
generateBasicBrief(errorMessage) ==
    [kind |-> "basic", notice |-> errorMessage # "", unavailable |-> TRUE]

\* the brief made of the header and the text the content-generation call
\* returned; whether that text speaks of unavailable data is up to the text
AiBrief(mentions) ==
    [kind |-> "ai", notice |-> FALSE, unavailable |-> mentions]

\* baseDelay, the default of retryOperation (ms)
BASE_DELAY == 1000

\* this.delay(500) between the calls of one gathering function, and
\* this.delay(1000) between gatherGmailData and gatherCalendarData (ms)
CALL_DELAY == 500
MAJOR_DELAY == 1000

\* retryOperation is not being executed
RetryIdle ==
    [pc |-> "idle", throwOnFailure |-> TRUE, maxRetries |-> 0, baseDelay |-> 0,
     attempt |-> 0, invocations |-> 0, failures |-> 0, delays |-> <<>>,
     value |-> "none", from |-> 0, error |-> 0]

\* a variant of the backoff that grows by baseDelay per attempt
BackoffLinear(baseDelay, attempt) == baseDelay * attempt

\* the delay computed after attempt has failed (line 609)
Backoff(baseDelay, attempt) == baseDelay * 2^(attempt - 1)

\* retryOperation(operation, throwOnFailure, maxRetries, baseDelay) is
\* entered: the loop starts at attempt 1; with maxRetries below 1 its body
\* never runs and the function returns undefined
retryOperation(throwOnFailure, maxRetries, baseDelay) ==
    [RetryIdle EXCEPT !.pc = IF 1 <= maxRetries THEN "invoke" ELSE "returned",
                      !.throwOnFailure = throwOnFailure,
                      !.maxRetries = maxRetries,
                      !.baseDelay = baseDelay,
                      !.attempt = 1,
                      !.value = IF 1 <= maxRetries THEN "none" ELSE "undefined"]

\* retryOperation is called by some caller with arguments of its choice,
\* while no run of the pipeline is using it
RetryOperation ==
    /\ pipe.pc = "idle"
    /\ retry.pc \in {"idle", "returned", "thrown"}
    /\ \E throwOnFailure \in BOOLEAN, maxRetries \in 0..MaxAttempts,
          baseDelay \in {BASE_DELAY, CALL_DELAY} :
        retry' = retryOperation(throwOnFailure, maxRetries, baseDelay)
    /\ UNCHANGED <<outsidePipe, pipe, pipeLog>>

\* await operation() (line 591): the operation is invoked
OperationInvoked ==
    /\ retry.pc = "invoke"
    /\ retry' = [retry EXCEPT !.pc = "awaiting", !.invocations = @ + 1]
    /\ UNCHANGED <<outsidePipe, pipe, pipeLog>>

\* a variant whose test for the last attempt is off by one
OperationSettlesOnceMore ==
    /\ retry.pc = "awaiting"
    /\ \E ok \in BOOLEAN :
        retry' =
            IF ok
            THEN [retry EXCEPT !.pc = "returned", !.value = "result", !.from = retry.attempt]
            ELSE IF retry.attempt = retry.maxRetries + 1
            THEN (IF retry.throwOnFailure
                  THEN [retry EXCEPT !.pc = "thrown", !.failures = @ + 1,
                                     !.error = retry.attempt]
                  ELSE [retry EXCEPT !.pc = "returned", !.failures = @ + 1,
                                     !.value = "empty"])
            ELSE [retry EXCEPT !.pc = "delay", !.failures = @ + 1,
                               !.delays = Append(@, Backoff(retry.baseDelay, retry.attempt))]
    /\ UNCHANGED <<outsidePipe, pipe, pipeLog>>

\* a variant that answers every exhausted call with [], whatever
\* throwOnFailure says
OperationSettlesNeverThrows ==
    /\ retry.pc = "awaiting"
    /\ \E ok \in BOOLEAN :
        retry' =
            IF ok
            THEN [retry EXCEPT !.pc = "returned", !.value = "result", !.from = retry.attempt]
            ELSE IF retry.attempt = retry.maxRetries
            THEN [retry EXCEPT !.pc = "returned", !.failures = @ + 1, !.value = "empty"]
            ELSE [retry EXCEPT !.pc = "delay", !.failures = @ + 1,
                               !.delays = Append(@, Backoff(retry.baseDelay, retry.attempt))]
    /\ UNCHANGED <<outsidePipe, pipe, pipeLog>>

\* the pending operation settles: a result is returned at once; a failure of
\* the last attempt is thrown, or answered with [], and a failure of an
\* earlier attempt starts the backoff delay (lines 592-611)
OperationSettles ==
    /\ retry.pc = "awaiting"
    /\ \E ok \in BOOLEAN :
        retry' =
            IF ok
            THEN [retry EXCEPT !.pc = "returned", !.value = "result", !.from = retry.attempt]
            ELSE IF retry.attempt = retry.maxRetries
            THEN (IF retry.throwOnFailure
                  THEN [retry EXCEPT !.pc = "thrown", !.failures = @ + 1,
                                     !.error = retry.attempt]
                  ELSE [retry EXCEPT !.pc = "returned", !.failures = @ + 1,
                                     !.value = "empty"])
            ELSE [retry EXCEPT !.pc = "delay", !.failures = @ + 1,
                               !.delays = Append(@, Backoff(retry.baseDelay, retry.attempt))]
    /\ UNCHANGED <<outsidePipe, pipe, pipeLog>>

\* await this.delay(delay) (line 611) is over: the loop goes to the next attempt
BackoffElapses ==
    /\ retry.pc = "delay"
    /\ retry' = [retry EXCEPT !.pc = "invoke", !.attempt = @ + 1]
    /\ UNCHANGED <<outsidePipe, pipe, pipeLog>>

\* the call that follows call op in its gathering function
CallAfter(op) ==
    CASE op = "unread" -> "important"
      [] op = "important" -> "vip"
      [] op = "vip" -> "today"
      [] op = "today" -> "upcoming"
      [] op = "upcoming" -> "ai"

\* an entry of pipeLog
LogEntry(call, attempt, ok, ms) ==
    [call |-> call, attempt |-> attempt, ok |-> ok, ms |-> ms]

\* generateBriefContent is called: gatherGmailData makes its first call of
\* retryOperation, with the default arguments
GenerateBriefContent ==
    /\ pipe.pc = "idle"
    /\ retry.pc \in {"idle", "returned", "thrown"}
    /\ pipe' = [pipe EXCEPT !.pc = "unread"]
    /\ retry' = retryOperation(TRUE, MAX_RETRIES, BASE_DELAY)
    /\ UNCHANGED <<outsidePipe, pipeLog>>

\* a variant of the gathering functions without delay(500) between calls
GatherReturnsWithoutDelay ==
    /\ pipe.pc \in SourceCalls
    /\ retry.pc \in {"returned", "thrown"}
    /\ LET op == pipe.pc
           ok == retry.pc = "returned"
           gmail == op \in {"unread", "important", "vip"}
           goesOn == ok /\ op \notin {"vip", "upcoming"}
       IN  /\ pipeLog' = Append(pipeLog, LogEntry(op, retry.attempt, ok, 0))
           /\ pipe' =
                IF goesOn
                THEN [pipe EXCEPT !.pc = CallAfter(op)]
                ELSE IF gmail
                THEN [pipe EXCEPT !.pc = "delay", !.next = "today", !.ms = MAJOR_DELAY,
                                  !.emailSummary = IF ok THEN "data" ELSE Null]
                ELSE [pipe EXCEPT !.pc = "ai",
                                  !.calendarSummary = IF ok THEN "data" ELSE Null]
           /\ retry' = IF goesOn THEN retryOperation(TRUE, MAX_RETRIES, BASE_DELAY) ELSE RetryIdle
    /\ UNCHANGED outsidePipe

\* retryOperation comes back to the gathering function: with a result the
\* function goes on (delay(500), next call) or, after its last call, returns
\* the summary; an error thrown by retryOperation is caught by the gathering
\* function, which returns null (lines 371-374, 416-419). After
\* gatherGmailData comes delay(1000), after gatherCalendarData the
\* content-generation call.
GatherReturns ==
    /\ pipe.pc \in SourceCalls
    /\ retry.pc \in {"returned", "thrown"}
    /\ LET op == pipe.pc
           ok == retry.pc = "returned"
           gmail == op \in {"unread", "important", "vip"}
       IN  /\ pipeLog' = Append(pipeLog, LogEntry(op, retry.attempt, ok, 0))
           /\ pipe' =
                IF gmail
                THEN (IF ok /\ op # "vip"
                      THEN [pipe EXCEPT !.pc = "delay", !.next = CallAfter(op), !.ms = CALL_DELAY]
                      ELSE [pipe EXCEPT !.pc = "delay", !.next = "today", !.ms = MAJOR_DELAY,
                                        !.emailSummary = IF ok THEN "data" ELSE Null])
                ELSE (IF ok /\ op # "upcoming"
                      THEN [pipe EXCEPT !.pc = "delay", !.next = CallAfter(op), !.ms = CALL_DELAY]
                      ELSE [pipe EXCEPT !.pc = "ai",
                                        !.calendarSummary = IF ok THEN "data" ELSE Null])
    /\ retry' = RetryIdle
    /\ UNCHANGED outsidePipe

\* await this.delay(ms) is over and the next data-source call enters
\* retryOperation
Delay ==
    /\ pipe.pc = "delay"
    /\ pipeLog' = Append(pipeLog, LogEntry("delay", 0, TRUE, pipe.ms))
    /\ pipe' = [pipe EXCEPT !.pc = pipe.next, !.next = Null, !.ms = 0]
    /\ retry' = retryOperation(TRUE, MAX_RETRIES, BASE_DELAY)
    /\ UNCHANGED outsidePipe

\* generateAIDailyBrief: one content-generation call, not retried; a text
\* becomes the brief, a rejection or a response without content[0] is caught
\* and replaced by the fallback brief; generateBriefContent returns the result
GenerateAIDailyBrief ==
    /\ pipe.pc = "ai"
    /\ \E ok \in BOOLEAN, mentions \in BOOLEAN, message \in ErrorMessages :
        /\ ok \/ ~mentions
        /\ pipeLog' = Append(pipeLog, LogEntry("ai", 1, ok, 0))
        /\ pipe' = [pipe EXCEPT !.pc = "done",
                    !.result = IF ok THEN AiBrief(mentions) ELSE generateBasicBrief(message)]
    /\ UNCHANGED <<outsidePipe, retry>>

InitPipeline ==
    /\ now = StartInstant
    /\ FireAtRest
    /\ SyncAtRest
    /\ GenAtRest
    /\ MoreAtRest

NextPipeline ==
    \/ GenerateBriefContent
    \/ RetryOperation
    \/ OperationInvoked
    \/ OperationSettles
    \/ BackoffElapses
    \/ GatherReturns
    \/ Delay
    \/ GenerateAIDailyBrief

SpecPipeline == InitPipeline /\ [][NextPipeline]_vars

(***************************************************************************)
(* Claims about the generation pipeline                                    *)
(***************************************************************************)
\* the content-generation call of the run has been made and has failed
AiCallFailed ==
    /\ pipeLog # <<>>
    /\ pipeLog[Len(pipeLog)].call = "ai"
    /\ ~pipeLog[Len(pipeLog)].ok

\* C11: when a data-source call (Gmail or Calendar) has failed on every
\* retry attempt, the brief the pipeline returns is the fallback brief of
\* generateBasicBrief with its unavailability notice.
C11_SourceFailureGivesFallback ==
    (pipe.pc = "done" /\ (pipe.emailSummary = Null \/ pipe.calendarSummary = Null))
        => (pipe.result.kind = "basic" /\ pipe.result.notice)

\* C12: when the content-generation call fails after data gathering has
\* finished, generateBriefContent returns (it does not reject) the templated
\* brief of generateBasicBrief carrying the failure notice.
C12_AiFailureGivesFallback ==
    AiCallFailed =>
        /\ pipe.pc = "done"
        /\ pipe.result # NoBrief
        /\ pipe.result = [kind |-> "basic", notice |-> TRUE, unavailable |-> TRUE]

\* both summaries were gathered, the content-generation call failed and the
\* run has returned the fallback brief
C12_Witness ==
    /\ AiCallFailed
    /\ pipe.emailSummary = "data"
    /\ pipe.calendarSummary = "data"
    /\ pipe.pc = "done"
    /\ pipe.result.kind = "basic"

(***************************************************************************)
(* Claims about the Dedup Guard and the DeliveryRecords of a firing        *)
(***************************************************************************)
\* the firing of callback c takes the step from pc from to a pc in to
Moves(c, from, to) ==
    callback[c].pc = from /\ callback'[c].pc \in to

\* C22: checkIfAlreadySent(userId) returns true whenever at least one
\* DeliveryRecord of the user, of any status, has a timestamp at or after the
\* start of the current UTC day, whether there is one such record or more, and
\* false when there is none.
C22_AlreadySentForAnyNumber ==
    [][\A c \in Callbacks :
        Moves(c, "idle", {"checkRecent"}) =>
            callback'[c].alreadySent =
                (RowsSince(callback[c].user.user_id, StartOfUtcDay(now)) # {})]_vars

C24_SkipIsRecorded ==
    [][\A c \in Callbacks :
        Moves(c, "checkRecent", {"idle"}) =>
            /\ Len(brief_usage') = Len(brief_usage) + 1
            /\ brief_usage'[Len(brief_usage')].user_id = callback[c].user.user_id
            /\ brief_usage'[Len(brief_usage')].status = "skipped"]_vars

\* C25: a firing that has passed the dedup checks appends exactly one
\* DeliveryRecord before it returns, with status success exactly when the
\* delivery call returned true and no exception was thrown and status failed
\* otherwise; no step updates or deletes a record.
C25_OneRecordPerFiring ==
    [][/\ \A c \in Callbacks :
            (/\ callback[c].pc \in {"log", "catch"}
             /\ callback[c].status \in {"success", "failed"}
             /\ callback'[c].pc = "idle") =>
                brief_usage' = Append(brief_usage,
                    [user_id |-> callback[c].user.user_id, last_used |-> now,
                     status |-> IF callback[c].pc = "catch" THEN "failed"
                                ELSE callback[c].status])
       /\ Len(brief_usage') >= Len(brief_usage)
       /\ SubSeq(brief_usage', 1, Len(brief_usage)) = brief_usage]_vars

\* C36: when a delivery-history query returns an error, the check returns
\* false without throwing and the firing goes on to generation and delivery;
\* when the insert of the DeliveryRecord returns an error, logBriefSent
\* returns normally and the history store is unchanged.
C36_DedupFailsOpen ==
    [][\A c \in Callbacks :
        (callback'[c] # callback[c] /\ callback'[c].store = "error") =>
            /\ Moves(c, "idle", {"checkRecent"}) => ~callback'[c].alreadySent
            /\ (callback[c].pc = "checkRecent" /\ ~callback[c].alreadySent) =>
                    callback'[c].pc = "send"
            /\ callback[c].pc \in {"log", "catch"} =>
                    /\ brief_usage' = brief_usage
                    /\ callback'[c].pc = "idle"
                    /\ unhandled' = unhandled]_vars

\* a firing is on its way to the delivery after its latest query returned an
\* error, although the user has a success record today
C36_Witness ==
    \E c \in Callbacks :
        /\ callback[c].pc = "send"
        /\ callback[c].store = "error"
        /\ HasSuccessToday(callback[c].user.user_id, now)

\* the start of the window that the two dedup queries of a firing look at
DedupSince(cb) ==
    IF StartOfUtcDay(cb.started) < now - COOLDOWN_SECONDS
    THEN StartOfUtcDay(cb.started) ELSE now - COOLDOWN_SECONDS

\* C37: a call of triggerTestBrief delivers whatever the delivery history
\* holds, writes no DeliveryRecord and leaves activeTasks and the tasks as
\* they are; so the Dedup Guard skips a scheduled firing only for a
\* DeliveryRecord of the user, never for a manual trigger.
C37_TestBriefLeavesNoTrace ==
    [][/\ testBriefs' # testBriefs =>
            /\ brief_usage' = brief_usage
            /\ activeTasks' = activeTasks
            /\ tasks' = tasks
            /\ callback' = callback
            /\ testBriefs'[Len(testBriefs')].found => Len(deliveries') = Len(deliveries) + 1
       /\ \A c \in Callbacks :
            Moves(c, "checkRecent", {"idle"}) =>
                RowsSince(callback[c].user.user_id, DedupSince(callback[c])) # {}]_vars

\* a scheduled firing goes on to the delivery although a manual trigger for
\* its user has succeeded earlier on the same day
C37_Witness ==
    \E c \in Callbacks, i \in DOMAIN testBriefs :
        /\ callback[c].pc = "send"
        /\ testBriefs[i].user_id = callback[c].user.user_id
        /\ testBriefs[i].returned
        /\ testBriefs[i].at < callback[c].started
        /\ StartOfUtcDay(testBriefs[i].at) = StartOfUtcDay(callback[c].started)
        /\ activeTasks # << >>

(***************************************************************************)
(* Claims about retryOperation and the order of the upstream calls         *)
(***************************************************************************)
\* where a call of retryOperation stands, as a number that grows with every
\* step of the call
RetryRank(r) ==
    3 * r.attempt + (CASE r.pc = "invoke" -> 0
                       [] r.pc = "awaiting" -> 1
                       [] r.pc = "delay" -> 2
                       [] OTHER -> 3)

RetryRunning(r) == r.pc \in {"invoke", "awaiting", "delay"}

\* C26: retryOperation invokes operation at most maxRetries times, makes no
\* invocation after the first one that succeeds and returns that invocation's
\* result, and always terminates: every step of a call takes it further, and
\* no call goes further than its last attempt.
C26_BoundedAttempts ==
    /\ [](/\ retry.invocations <= retry.maxRetries
          /\ retry.value = "result" =>
                /\ retry.pc = "returned"
                /\ retry.from = retry.invocations
                /\ retry.failures = retry.invocations - 1)
    /\ [][(RetryRunning(retry) /\ retry' # retry) =>
            /\ RetryRank(retry') > RetryRank(retry)
            /\ RetryRank(retry') <= 3 * retry.maxRetries + 3
            /\ retry'.maxRetries = retry.maxRetries]_vars

\* a call allowed four attempts has returned the result of its second one
C26_Witness ==
    /\ retry.pc = "returned"
    /\ retry.maxRetries = 4
    /\ retry.value = "result"
    /\ retry.from = 2
    /\ retry.invocations = 2

\* the number of delays a call has begun: one after each failed attempt but
\* the last
DelaysBegun(r) ==
    IF r.pc = "idle" THEN 0
    ELSE IF r.pc = "delay" THEN r.attempt
    ELSE r.attempt - 1

\* C27 as stated: attempt 1 starts with no delay, the delay immediately before
\* attempt k (k from 2 to maxRetries) is baseDelay * 2^(k-1), and no delay
\* follows the last failed attempt.
C27_DelayBeforeAttemptK ==
    /\ Len(retry.delays) = DelaysBegun(retry)
    /\ retry.pc = "delay" => retry.attempt < retry.maxRetries
    /\ \A k \in 2..(Len(retry.delays) + 1) :
        retry.delays[k - 1] = retry.baseDelay * 2^(k - 1)

\* C27 as amended: attempt 1 starts with no delay, the delay immediately
\* before attempt k (k from 2 to maxRetries) is baseDelay * 2^(k-2), that is
\* baseDelay, 2 * baseDelay, 4 * baseDelay, ..., and no delay follows the last
\* failed attempt.
C27_DelayAfterAttemptK ==
    /\ Len(retry.delays) = DelaysBegun(retry)
    /\ retry.pc = "delay" => retry.attempt < retry.maxRetries
    /\ \A k \in 2..(Len(retry.delays) + 1) :
        retry.delays[k - 1] = retry.baseDelay * 2^(k - 2)

\* a call with the default baseDelay has failed four times
C27_Witness ==
    /\ retry.pc = "thrown"
    /\ retry.failures = 4
    /\ retry.delays = <<1000, 2000, 4000>>

\* the entries of pipeLog that are data-source calls of a gathering function
IsGmail(call) == call \in {"unread", "important", "vip"}
IsCalendar(call) == call \in {"today", "upcoming"}

\* C28: when every attempt of retryOperation has failed, the call throws the
\* error of its last attempt if throwOnFailure is true and returns an empty
\* list if it is false; in the pipeline an exhausted data-source call makes
\* its gathering function return null, and the run goes on to the next
\* source and to the content-generation call.
C28_ExhaustedRetries ==
    /\ (/\ retry.pc \in {"returned", "thrown"}
        /\ retry.invocations >= 1
        /\ retry.failures = retry.invocations)
        => IF retry.throwOnFailure
           THEN retry.pc = "thrown" /\ retry.error = retry.maxRetries
           ELSE retry.pc = "returned" /\ retry.value = "empty"
    /\ \A i \in DOMAIN pipeLog :
        (pipeLog[i].call \in SourceCalls /\ ~pipeLog[i].ok) =>
            /\ pipeLog[i].attempt = MAX_RETRIES
            /\ IsGmail(pipeLog[i].call) => pipe.emailSummary = Null
            /\ IsCalendar(pipeLog[i].call) => pipe.calendarSummary = Null
            /\ pipe.pc \in {"delay", "today", "upcoming", "ai", "done"}
            /\ pipe.pc = "done" => pipeLog[Len(pipeLog)].call = "ai"

\* both sources were exhausted and the run has returned a brief
C28_Witness ==
    /\ pipe.pc = "done"
    /\ pipe.emailSummary = Null
    /\ pipe.calendarSummary = Null
    /\ pipe.result # NoBrief

\* the place of an upstream call in the program order
CallRank(call) ==
    CASE call = "unread" -> 1
      [] call = "important" -> 2
      [] call = "vip" -> 3
      [] call = "today" -> 4
      [] call = "upcoming" -> 5
      [] call = "ai" -> 6
      [] OTHER -> 0

\* C29: within one run of the pipeline the upstream calls run one after
\* another, in the order Gmail (three calls), Calendar (two calls), content
\* generation: a call, retries included, begins only when every earlier call
\* has finished, and a delay lies between any two data-source calls.
C29_OneCallAtATime ==
    /\ \A i, j \in DOMAIN pipeLog :
        (i < j /\ pipeLog[i].call # "delay" /\ pipeLog[j].call # "delay")
            => CallRank(pipeLog[i].call) < CallRank(pipeLog[j].call)
    /\ \A i \in DOMAIN pipeLog :
        (i < Len(pipeLog) /\ pipeLog[i].call \in SourceCalls /\ pipeLog[i + 1].call # "ai")
            => (pipeLog[i + 1].call = "delay" /\ pipeLog[i + 1].ms >= CALL_DELAY)
    /\ (pipe.pc \in SourceCalls /\ RetryRunning(retry)) =>
        /\ \A i \in DOMAIN pipeLog : CallRank(pipeLog[i].call) < CallRank(pipe.pc)
        /\ pipe.pc # "unread" =>
            (pipeLog # <<>> /\ pipeLog[Len(pipeLog)].call = "delay")
    /\ pipe.pc = "ai" => (pipeLog # <<>> /\ IsCalendar(pipeLog[Len(pipeLog)].call))
    /\ retry.pc = "awaiting" => pipe.pc \in SourceCalls \cup {"idle"}

\* a run in which all five data-source calls and the content-generation call
\* were made
C29_Witness ==
    /\ pipe.pc = "done"
    /\ Len(pipeLog) = 10
    /\ \E i \in DOMAIN pipeLog : pipeLog[i].call = "vip" /\ pipeLog[i].attempt = 2

(***************************************************************************)
(* Job queue: enqueueDueBriefJobs (supabase-helper.js 136-174) over table  *)
(* brief_queue, whose key (user_id, scheduled_at) is unique                *)
(***************************************************************************)
T080000 == <<"0", "8", ":", "0", "0", ":", "0", "0">>
T0801 == <<"0", "8", ":", "0", "1">>
T2200 == <<"2", "2", ":", "0", "0">>
T2201 == <<"2", "2", ":", "0", "1">>

\* values of user.delivery_time given to enqueueDueBriefJobs
QueueDeliveryTimes == {T0800, T080000, T0801, T2200, T2201, NoTime}

\* seconds by which now advances between steps of the queue
QueueStep == 30

DigitChar(n) ==
    CASE n = 0 -> "0" [] n = 1 -> "1" [] n = 2 -> "2" [] n = 3 -> "3"
      [] n = 4 -> "4" [] n = 5 -> "5" [] n = 6 -> "6" [] n = 7 -> "7"
      [] n = 8 -> "8" [] n = 9 -> "9"

\* moment.tz(nowUtc, timezone).format("HH:mm")
FormatHHmm(timezone, t) ==
    LET local == (t + UtcOffset(timezone, t)) % DAY
        hour == local \div 3600
        minute == (local % 3600) \div 60
    IN  <<DigitChar(hour \div 10), DigitChar(hour % 10), ":",
          DigitChar(minute \div 10), DigitChar(minute % 10)>>

\* str.slice(0, 5)
Slice5(str) == SubSeq(str, 1, IF Len(str) < 5 THEN Len(str) ELSE 5)

\* the scheduled_at of lines 146-156: the wall-clock fields of the user's
\* local time, to the minute, handed to Date.UTC
ScheduledAt(timezone, t) == ((t + UtcOffset(timezone, t)) \div 60) * 60

\* the test of line 144
IsDue(user, t) == FormatHHmm(user.timezone, t) = Slice5(user.delivery_time)

\* the array upserts of lines 139-164, as the set of its keys
Upserts(users, t) ==
    {[user_id |-> user.user_id, scheduled_at |-> ScheduledAt(user.timezone, t)] :
        user \in {u \in users : IsDue(u, t)}}

KeyOf(row) == [user_id |-> row.user_id, scheduled_at |-> row.scheduled_at]

UserRank(userId) == IF userId = "u1" THEN 1 ELSE 2

NewJob(id, key) ==
    [id |-> id, user_id |-> key.user_id, scheduled_at |-> key.scheduled_at,
     status |-> "pending", attempts |-> 0, last_error |-> Null]

\* a plain insert of the rows: every one becomes a new row
insert(table, keys) ==
    table \cup {NewJob(Cardinality(table)
                        + Cardinality({j \in keys : UserRank(j.user_id) <= UserRank(k.user_id)}), k) :
                k \in keys}

\* upsert(rows, { onConflict: "user_id,scheduled_at" }): a row whose key is
\* in the table updates that row with the columns given (status), the other
\* rows are inserted
upsert(table, keys) ==
    LET old == {k \in keys : \E r \in table : KeyOf(r) = k}
        new == keys \ old
    IN  {IF KeyOf(r) \in old THEN [r EXCEPT !.status = "pending"] ELSE r : r \in table}
        \cup {NewJob(Cardinality(table)
                        + Cardinality({j \in new : UserRank(j.user_id) <= UserRank(k.user_id)}), k) :
              k \in new}

\* enqueueDueBriefJobs(users) with the users' rows as they are at the call
EnqueueDueBriefJobs ==
    /\ lastEnqueue.call < MaxEnqueues
    /\ \E us \in SUBSET Users, dt \in [Users -> QueueDeliveryTimes], ok \in BOOLEAN :
        LET users == {Row(u, UserTimezone(u), dt[u], "S") : u \in us}
            upserts == Upserts(users, now)
            existing == {k \in upserts : \E r \in brief_queue : KeyOf(r) = k}
        IN  /\ upserts = {} => ok
            /\ brief_queue' = IF ok THEN upsert(brief_queue, upserts) ELSE brief_queue
            /\ lastEnqueue' = [call |-> lastEnqueue.call + 1, upserts |-> upserts,
                               existing |-> existing,
                               inserted |-> IF ok THEN Cardinality(upserts) ELSE 0]
    /\ UNCHANGED <<now, queueAdvances, helperCalls, poll, outsideQueue>>

\* time passes
QueueAdvance ==
    /\ queueAdvances < MaxQueueAdvances
    /\ now' = now + QueueStep
    /\ queueAdvances' = queueAdvances + 1
    /\ UNCHANGED <<brief_queue, lastEnqueue, helperCalls, poll, outsideQueue>>

InitQueue ==
    /\ now = StartInstant
    /\ FireAtRest
    /\ SyncAtRest
    /\ GenAtRest
    /\ MoreAtRest

NextQueue ==
    \/ EnqueueDueBriefJobs
    \/ QueueAdvance

SpecQueue == InitQueue /\ [][NextQueue]_vars

\* .update(columns).eq("id", id): the row with that id takes the columns
UpdateById(table, id, status, lastError) ==
    {IF r.id = id THEN [r EXCEPT !.status = status, !.last_error = lastError] ELSE r :
        r \in table}

\* markJobProcessing(id): status processing; attempts is passed as undefined,
\* which leaves the column out of the update
markJobProcessing(table, id) ==
    {IF r.id = id THEN [r EXCEPT !.status = "processing"] ELSE r : r \in table}

\* completeJob(id)
completeJob(table, id) ==
    {IF r.id = id THEN [r EXCEPT !.status = "completed"] ELSE r : r \in table}

\* failJob(id, lastError): status failed and last_error; attempts is passed
\* as undefined
failJob(table, id, lastError) == UpdateById(table, id, "failed", lastError)

\* some caller of the queue helpers marks a job as processing; a request
\* that the store answers with an error changes nothing
MarkJobProcessing ==
    /\ helperCalls < MaxHelperCalls
    /\ helperCalls' = helperCalls + 1
    /\ \E r \in brief_queue, ok \in BOOLEAN :
        brief_queue' = IF ok THEN markJobProcessing(brief_queue, r.id) ELSE brief_queue
    /\ UNCHANGED <<now, lastEnqueue, queueAdvances, poll, outsideQueue>>

CompleteJob ==
    /\ helperCalls < MaxHelperCalls
    /\ helperCalls' = helperCalls + 1
    /\ \E r \in brief_queue, ok \in BOOLEAN :
        brief_queue' = IF ok THEN completeJob(brief_queue, r.id) ELSE brief_queue
    /\ UNCHANGED <<now, lastEnqueue, queueAdvances, poll, outsideQueue>>

FailJob ==
    /\ helperCalls < MaxHelperCalls
    /\ helperCalls' = helperCalls + 1
    /\ \E r \in brief_queue, ok \in BOOLEAN, lastError \in ErrorMessages :
        brief_queue' = IF ok THEN failJob(brief_queue, r.id, lastError) ELSE brief_queue
    /\ UNCHANGED <<now, lastEnqueue, queueAdvances, poll, outsideQueue>>

\* the enqueue step together with the helpers that change a job's status
NextJobs ==
    \/ EnqueueDueBriefJobs
    \/ QueueAdvance
    \/ MarkJobProcessing
    \/ CompleteJob
    \/ FailJob

SpecJobs == InitQueue /\ [][NextJobs]_vars

(***************************************************************************)
(* Poll step of the job queue (spec 4.4): fetch the due pending jobs, and  *)
(* for each of them mark it processing, execute the firing flow, and mark  *)
(* it completed or failed.  The helpers are those of supabase-helper.js;   *)
(* the loop that calls them is taken from the specification.               *)
(***************************************************************************)
\* default of the parameter limit of fetchNextBriefJobs
FETCH_LIMIT == 5

Pollers == 1..MaxPollers

\* the rows that match .eq("status", "pending").lte("scheduled_at", now)
DuePending(table, t) ==
    {r \in table : r.status = "pending" /\ r.scheduled_at <= t}

\* fetchNextBriefJobs(limit): the possible values of data, the first limit
\* rows of the matching ones by ascending scheduled_at; [] on an error
fetchNextBriefJobs(table, limit, t, ok) ==
    LET due == DuePending(table, t)
        n == IF Cardinality(due) < limit THEN Cardinality(due) ELSE limit
    IN  IF ~ok THEN {{}}
        ELSE {S \in SUBSET due :
                /\ Cardinality(S) = n
                /\ \A r \in S, q \in due \ S : r.scheduled_at <= q.scheduled_at}

\* a poller begins a poll step: it fetches the jobs to work on
PollFetch(p) ==
    /\ poll[p].pc = "idle"
    /\ poll[p].fetches < MaxPolls
    /\ \E ok \in DbOutcomes :
        \E data \in fetchNextBriefJobs(brief_queue, FETCH_LIMIT, now, ok) :
            poll' = [poll EXCEPT ![p] =
                [pc |-> IF data = {} THEN "idle" ELSE "fetched",
                 jobs |-> {r.id : r \in data}, job |-> -1,
                 fetches |-> poll[p].fetches + 1]]
    /\ UNCHANGED <<now, brief_queue, lastEnqueue, queueAdvances, helperCalls, outsideQueue>>

\* the poller takes the next job it has fetched and marks it processing
PollMark(p) ==
    /\ poll[p].pc = "fetched"
    /\ \E id \in poll[p].jobs, ok \in DbOutcomes :
        /\ brief_queue' = IF ok THEN markJobProcessing(brief_queue, id) ELSE brief_queue
        /\ poll' = [poll EXCEPT ![p] =
                [@ EXCEPT !.pc = "executing", !.jobs = @ \ {id}, !.job = id]]
    /\ UNCHANGED <<now, lastEnqueue, queueAdvances, helperCalls, outsideQueue>>

\* the firing flow for the job ends, with a delivery or with an error, and
\* the poller marks the job completed or failed; it then goes on to the next
\* job it has fetched
PollFinish(p) ==
    /\ poll[p].pc = "executing"
    /\ \E delivered \in BOOLEAN, ok \in DbOutcomes, lastError \in ErrorMessages :
        brief_queue' =
            IF ~ok THEN brief_queue
            ELSE IF delivered THEN completeJob(brief_queue, poll[p].job)
            ELSE failJob(brief_queue, poll[p].job, lastError)
    /\ poll' = [poll EXCEPT ![p] =
            [@ EXCEPT !.pc = IF poll[p].jobs = {} THEN "idle" ELSE "fetched", !.job = -1]]
    /\ UNCHANGED <<now, lastEnqueue, queueAdvances, helperCalls, outsideQueue>>

\* the enqueue step and the pollers
NextPoll ==
    \/ lastEnqueue.call < MaxPollEnqueues /\ EnqueueDueBriefJobs
    \/ QueueAdvance
    \/ \E p \in Pollers : PollFetch(p)
    \/ \E p \in Pollers : PollMark(p)
    \/ \E p \in Pollers : PollFinish(p)

SpecPoll == InitQueue /\ [][NextPoll]_vars

(***************************************************************************)
(* Claims about the job queue                                              *)
(***************************************************************************)
KeyRows(key) == {r \in brief_queue : KeyOf(r) = key}

\* C13: after any number of enqueue steps for a user within one minute, the
\* key (userId, scheduledAt) has one row: no key ever has two rows, and every
\* key that an enqueue step has just written has exactly one.
C13_OneRowPerKey ==
    /\ \A r1, r2 \in brief_queue : KeyOf(r1) = KeyOf(r2) => r1 = r2
    /\ lastEnqueue.inserted > 0 =>
            \A key \in lastEnqueue.upserts : Cardinality(KeyRows(key)) = 1

\* an enqueue step has written a key that already had a row
C13_Witness ==
    /\ lastEnqueue.call > 1
    /\ lastEnqueue.inserted > 0
    /\ lastEnqueue.existing # {}
    /\ \A key \in lastEnqueue.existing : Cardinality(KeyRows(key)) = 1

\* C30: an enqueue step for a key (userId, scheduledAt) that already has a
\* row leaves that row unchanged: its status, attempts and lastError are the
\* same after the step as before it.
C30_EnqueueLeavesExistingRow ==
    [][lastEnqueue'.call # lastEnqueue.call =>
        \A r \in brief_queue :
            KeyOf(r) \in lastEnqueue'.upserts => r \in brief_queue']_vars

\* C32: marking a job failed sets its status to failed, records lastError and
\* increases its attempts by one; attempts never decreases.
C32_FailJobCountsAttempt ==
    [][\A r \in brief_queue, s \in brief_queue' :
            s.id = r.id =>
                /\ s.attempts >= r.attempts
                /\ (r.status # "failed" /\ s.status = "failed") =>
                        /\ s.last_error \in ErrorMessages
                        /\ s.attempts = r.attempts + 1]_vars

\* C33: the scheduled_at of every job that an enqueue step writes is the
\* current UTC instant rounded down to the minute, whatever the user's
\* timezone offset, so that the job is due (scheduled_at <= now) at once.
C33_ScheduledAtIsUtcMinute ==
    [][lastEnqueue'.call # lastEnqueue.call =>
        \A key \in lastEnqueue'.upserts :
            /\ key.scheduled_at = (now \div 60) * 60
            /\ key.scheduled_at <= now]_vars

\* the changes of status that the life of a QueueJob consists of
StatusChanges ==
    {<<"pending", "processing">>, <<"processing", "completed">>,
     <<"processing", "failed">>, <<"failed", "pending">>}

\* C31: through any sequence of enqueue steps and poll steps, two pollers
\* running at once included, a job's status changes only from pending to
\* processing, from processing to completed or failed, and from failed to
\* pending; a completed job never changes status again.
C31_StatusTransitions ==
    [][\A r \in brief_queue, s \in brief_queue' :
            (s.id = r.id /\ s.status # r.status) =>
                <<r.status, s.status>> \in StatusChanges]_vars

\* the jobs a poller has fetched and not finished
Held(p) == poll[p].jobs \cup (IF poll[p].job = -1 THEN {} ELSE {poll[p].job})

\* C40: a job is in the hands of at most one poller: no job that one poll
\* step has fetched and not finished is held by another poll step, and every
\* job that a fetch returns is pending and due.
C40_OnePollerPerJob ==
    /\ [](\A p, q \in Pollers : p # q => Held(p) \cap Held(q) = {})
    /\ [][\A p \in Pollers :
            poll'[p].fetches # poll[p].fetches =>
                \A r \in brief_queue :
                    r.id \in poll'[p].jobs =>
                        r.status = "pending" /\ r.scheduled_at <= now]_vars

(***************************************************************************)
(* Delivery: WebhookClient.sendMessageViaWebhook (webhook-client.js 54-96) *)
(***************************************************************************)
\* what axios.post can come back with: a response with an HTTP status and a
\* body, a transport error, or the 30 s timeout
HttpStatuses == {200, 201, 204, 400, 500}

\* response.data: an object with success true, with success false, without
\* success, an empty body, or null
Bodies == {"success:true", "success:false", "noflag", "empty", "null"}

Outcomes ==
    {[transport |-> "response", status |-> st, data |-> d] : st \in HttpStatuses, d \in Bodies}
    \cup {[transport |-> tr, status |-> 0, data |-> "null"] : tr \in {"error", "timeout"}}

\* axios rejects on a transport error, a timeout and, with the default
\* validateStatus, on every status outside 2xx
AxiosRejects(outcome) ==
    outcome.transport # "response" \/ outcome.status < 200 \/ outcome.status > 299

\* a variant of the success test that looks at the HTTP status only
IsSuccessByStatus(outcome) == outcome.status = 200

\* the test of line 79: response.status === 200 && response.data.success
\* (reading .success of a null body throws a TypeError, which line 87 catches)
IsSuccess(outcome) ==
    outcome.status = 200 /\ outcome.data = "success:true"

\* sendMessageViaWebhook is called: the payload is built and axios.post sent
SendMessageViaWebhook ==
    /\ hook.pc = "idle"
    /\ hook.calls < MaxHookCalls
    /\ hook' = [hook EXCEPT !.pc = "posted", !.calls = @ + 1, !.posts = @ + 1]
    /\ UNCHANGED <<hookLog, outsideHook>>

\* axios.post settles and sendMessageViaWebhook returns
WebhookSettles ==
    /\ hook.pc = "posted"
    /\ \E outcome \in Outcomes :
        hookLog' = Append(hookLog,
            [outcome |-> outcome,
             returned |-> IF AxiosRejects(outcome) THEN FALSE ELSE IsSuccess(outcome)])
    /\ hook' = [hook EXCEPT !.pc = "idle"]
    /\ UNCHANGED outsideHook

InitHook ==
    /\ now = StartInstant
    /\ FireAtRest
    /\ SyncAtRest
    /\ GenAtRest
    /\ MoreAtRest

NextHook ==
    \/ SendMessageViaWebhook
    \/ WebhookSettles

SpecHook == InitHook /\ [][NextHook]_vars

(***************************************************************************)
(* Claims about delivery                                                   *)
(***************************************************************************)
\* C14: sendMessageViaWebhook makes exactly one HTTP call per invocation,
\* returns true exactly when the response has status 200 and the success flag
\* set, false for every other response, transport error or timeout, and never
\* throws.
C14_OneCallBooleanResult ==
    /\ hook.posts = hook.calls
    /\ hook.throws = 0
    /\ Len(hookLog) = hook.calls - (IF hook.pc = "posted" THEN 1 ELSE 0)
    /\ \A i \in DOMAIN hookLog :
        hookLog[i].returned =
            (/\ hookLog[i].outcome.transport = "response"
             /\ hookLog[i].outcome.status = 200
             /\ hookLog[i].outcome.data = "success:true")

\* invocations have returned true for a 200 with the flag, and false for a
\* 200 without it
C14_Witness ==
    /\ hook.pc = "idle"
    /\ \E i \in DOMAIN hookLog : hookLog[i].returned
    /\ \E i \in DOMAIN hookLog :
        /\ ~hookLog[i].returned
        /\ hookLog[i].outcome.status = 200
        /\ hookLog[i].outcome.transport = "response"

(***************************************************************************)
(* Claims about incomplete registry entries                                *)
(***************************************************************************)
\* the entry lacks slack_user_id, user_id, delivery_time or timezone
LacksField(r) ==
    \/ r.slack_user_id = Null
    \/ r.user_id = Null
    \/ r.delivery_time = NoTime
    \/ r.timezone = Null

\* the task stored for the entry's user in the state st = <<Map, running
\* tasks>> was created from this entry and is running
InstalledIn(r, active, running) ==
    /\ r.user_id \in DOMAIN active
    /\ \E t \in running : t.id = active[r.user_id] /\ t.user = r

\* C15: a sync cycle that completes installs no trigger for an entry of its
\* snapshot that lacks slack_user_id, user_id, delivery_time or timezone, and
\* installs the trigger of every other entry of the same snapshot; the cycle
\* completes whatever the entries are.
C15_IncompleteEntriesSkipped ==
    [][\A c \in SyncCalls :
        Completes(c) =>
            \A r \in sync[c].rows :
                IF LacksField(r)
                THEN ~\E t \in tasks' \ tasks : t.user.user_id = r.user_id
                ELSE InstalledIn(r, activeTasks', tasks')]_vars

\* a cycle has completed on a snapshot that holds an entry lacking a field
\* and a complete entry: the complete one has its trigger, the other none
C15_Witness ==
    /\ completed
    /\ \A c \in SyncCalls : sync[c].pc = "idle"
    /\ \E r \in snapshot : LacksField(r) /\ r.user_id \notin DOMAIN activeTasks
    /\ \E r \in snapshot : ~LacksField(r) /\ InstalledIn(r, activeTasks, tasks)

(***************************************************************************)
(* Claims about failures inside a firing callback                          *)
(***************************************************************************)
\* C16: no exception raised inside a firing callback (by a dedup query, the
\* delivery or a DeliveryRecord write, the write of the catch block included)
\* escapes the callback: no callback's promise is ever rejected.
C16_NoExceptionEscapes == unhandled = {}

(***************************************************************************)
(* One firing, from the dedup checks to the DeliveryRecord                 *)
(* (scheduler.js 58-123, webhook-client.js 20-49 and 197-277)              *)
(***************************************************************************)
\* how generateDailyBrief comes by the brief it returns: the pipeline, a
\* fresh cache entry, the promise of a generation in flight, or the apology
\* text of its catch
BriefSources == {"pipeline", "cache", "inFlight", "apology"}

\* DeliveryRecords of u1 left by earlier firings: none, one half an hour old,
\* one from the start of today (UTC), two from the start of today, one from
\* yesterday
Record(t, status) == [user_id |-> "u1", last_used |-> t, status |-> status]

Histories ==
    {<< >>,
     <<Record(StartInstant - 1800, "success")>>,
     <<Record(StartOfUtcDay(StartInstant), "failed")>>,
     <<Record(StartOfUtcDay(StartInstant), "success"), Record(StartOfUtcDay(StartInstant), "success")>>,
     <<Record(StartInstant - DAY, "success")>>}

\* everything but the firing callbacks and the call of sendBriefViaWebhook
outsideFiring == <<now, advances, dbFaults, brief_usage, unhandled, syncVars, genVars,
                   pipeVars, queueVars, hookVars, conv, testBriefs>>

\* the cron task of u1 fires: first dedup query
FiringBegins ==
    /\ firing.pc = "idle"
    /\ Fire(1)

\* second dedup query and the decision
DedupDecides == CheckRecent(1)

\* the callback calls sendBriefViaWebhook (scheduler.js 90-93), which calls
\* generateDailyBrief (webhook-client.js 26)
SendBriefViaWebhook ==
    /\ callback[1].pc = "send"
    /\ firing.pc = "idle"
    /\ firing' = [firing EXCEPT !.pc = "generateDailyBrief"]
    /\ UNCHANGED <<outsideFiring, callback, deliveries>>

\* the briefs that a run of generateBriefContent returns, and so the values
\* that the cache and a promise in flight hold
PipelineBriefs ==
    {AiBrief(mentions) : mentions \in BOOLEAN}
        \cup {generateBasicBrief(message) : message \in ErrorMessages}

\* the text of line 273: "Sorry, I couldn't generate your daily brief."
\* followed by error.message
ApologyBrief(message) == [kind |-> "apology", notice |-> TRUE, unavailable |-> FALSE]

\* the string is not empty (if (!briefContent), webhook-client.js 28): a
\* brief of the pipeline begins with the header line (lines 489-491, 559),
\* the apology with its fixed words
HasText(brief) == brief.kind \in {"ai", "basic", "apology"}

\* a variant of generateDailyBrief whose catch returns the empty string
BriefRequestedEmptyCatch ==
    /\ firing.pc = "generateDailyBrief"
    /\ \E source \in BriefSources :
        \E content \in IF source = "pipeline" THEN {NoBrief}
                        ELSE IF source = "apology" THEN {NoBrief}
                        ELSE PipelineBriefs :
            firing' = [pc |-> IF source = "pipeline" THEN "pipeline" ELSE "deliver",
                       source |-> source, content |-> content]
    /\ UNCHANGED <<outsideFiring, callback, deliveries>>

\* generateDailyBrief returns a brief without running the pipeline (the
\* brief of a fresh cache entry, line 208; the value of the promise in
\* flight, line 219; the apology of the catch, line 273), or calls
\* generateBriefContent
BriefRequested ==
    /\ firing.pc = "generateDailyBrief"
    /\ \E source \in BriefSources :
        \E content \in IF source = "pipeline" THEN {NoBrief}
                        ELSE IF source = "apology"
                        THEN {ApologyBrief(message) : message \in ErrorMessages}
                        ELSE PipelineBriefs :
            firing' = [pc |-> IF source = "pipeline" THEN "pipeline" ELSE "deliver",
                       source |-> source, content |-> content]
    /\ UNCHANGED <<outsideFiring, callback, deliveries>>

\* the steps of generateBriefContent, run for this firing
InPipeline == firing.pc = "pipeline"

\* generateBriefContent has returned the brief to generateDailyBrief, which
\* returns it to sendBriefViaWebhook
BriefReady ==
    /\ InPipeline
    /\ pipe.pc = "done"
    /\ firing' = [firing EXCEPT !.pc = "deliver", !.content = pipe.result]
    /\ UNCHANGED <<outsideFiring, callback, deliveries>>

\* sendBriefViaWebhook makes the delivery call (webhook-client.js 35) when
\* the brief is not empty (line 28)
Delivering == firing.pc = "deliver" /\ hookLog = <<>> /\ HasText(firing.content)

\* sendBriefViaWebhook returns what sendMessageViaWebhook returned, or
\* false without a delivery call for an empty brief (lines 28-31), and the
\* callback goes on to logBriefSent (scheduler.js 96-100)
SendReturns ==
    /\ firing.pc = "deliver"
    /\ hook.pc = "idle"
    /\ hookLog # <<>> \/ ~HasText(firing.content)
    /\ LET cb == callback[1]
           success == HasText(firing.content) /\ hookLog[Len(hookLog)].returned
       IN  /\ callback' = [callback EXCEPT ![1] =
                    [cb EXCEPT !.pc = "log",
                               !.status = IF success THEN "success" ELSE "failed"]]
           /\ deliveries' = Append(deliveries,
                    [user_id |-> cb.user.user_id, timezone |-> cb.user.timezone,
                     callback |-> 1, started |-> cb.started,
                     priorSuccess |-> cb.priorSuccess])
    /\ firing' = [firing EXCEPT !.pc = "returned"]
    /\ UNCHANGED outsideFiring

\* await logBriefSent(...), then the callback returns
RecordWritten == LogBrief(1)

InitOrder ==
    /\ SyncAtRest
    /\ GenAtRest
    /\ MoreAtRest
    /\ now = StartInstant
    /\ advances = 0
    /\ dbFaults = FALSE
    /\ brief_usage \in Histories
    /\ callback = [c \in Callbacks |->
            IdleCallback([user_id |-> IF c = 1 THEN "u1" ELSE "u2",
                          timezone |-> UserTimezone(IF c = 1 THEN "u1" ELSE "u2"),
                          slack_user_id |-> "S"])]
    /\ deliveries = <<>>
    /\ unhandled = {}

NextOrder ==
    \/ FiringBegins
    \/ DedupDecides
    \/ SendBriefViaWebhook
    \/ BriefRequested
    \/ InPipeline /\ GenerateBriefContent
    \/ InPipeline /\ OperationInvoked
    \/ InPipeline /\ OperationSettles
    \/ InPipeline /\ BackoffElapses
    \/ InPipeline /\ GatherReturns
    \/ InPipeline /\ Delay
    \/ InPipeline /\ GenerateAIDailyBrief
    \/ BriefReady
    \/ Delivering /\ SendMessageViaWebhook
    \/ Delivering /\ WebhookSettles
    \/ SendReturns
    \/ RecordWritten

SpecOrder == InitOrder /\ [][NextOrder]_vars

(***************************************************************************)
(* Claims about the order of the steps of a firing                         *)
(***************************************************************************)
\* a DeliveryRecord written by the firing that is followed
WrittenNow == {i \in DOMAIN brief_usage : brief_usage[i].last_used = now}

\* C21: within one firing the steps happen in this order: both dedup checks
\* return, then data gathering, then content generation, then the delivery
\* call, then the DeliveryRecord write; no generation or delivery call starts
\* before both dedup checks have returned "not sent".
C21_StepsInOrder ==
    /\ (firing.pc # "idle" \/ pipe.pc # "idle" \/ RetryRunning(retry) \/ hook.calls > 0) =>
        /\ callback[1].pc \in {"send", "log", "idle"}
        /\ callback[1].pc = "idle" => WrittenNow # {}
        /\ WrittenNow = {} =>
            /\ ~checkIfAlreadySent("u1", callback[1].started, TRUE)
            /\ ~checkIfSentRecently("u1", COOLDOWN_SECONDS, callback[1].started, TRUE)
    /\ (pipe.pc # "idle" \/ RetryRunning(retry)) =>
        firing.pc \in {"pipeline", "deliver", "returned"}
    /\ \A i, j \in DOMAIN pipeLog :
        (i < j /\ pipeLog[i].call # "delay" /\ pipeLog[j].call # "delay")
            => CallRank(pipeLog[i].call) < CallRank(pipeLog[j].call)
    /\ (\E i \in DOMAIN pipeLog : pipeLog[i].call = "ai") => pipe.pc = "done"
    /\ hook.calls > 0 =>
        /\ firing.pc \in {"deliver", "returned"}
        /\ firing.source = "pipeline" => pipe.pc = "done"
        /\ ~RetryRunning(retry)
    /\ callback[1].pc = "log" => (firing.pc = "returned" /\ hookLog # <<>>)
    /\ WrittenNow # {} =>
        /\ firing.pc = "returned"
        /\ hook.pc = "idle"
        /\ hook.calls = 1
        /\ callback[1].pc = "idle"
        /\ Cardinality(WrittenNow) = 1

\* a firing has gone through the five data-source calls, the
\* content-generation call and the delivery call, and has written its record
C21_Witness ==
    /\ firing.pc = "returned"
    /\ firing.source = "pipeline"
    /\ Len(pipeLog) = 10
    /\ hookLog # <<>>
    /\ hookLog[1].returned
    /\ \E i \in WrittenNow : brief_usage[i].status = "success"
    /\ callback[1].pc = "idle"

\* C38: the brief that generateDailyBrief returns is never empty, whether
\* it comes from the pipeline, the cache, a generation in flight or the catch
\* (the apology text); so sendBriefViaWebhook never returns without the
\* delivery call, and a firing whose delivery call succeeds is recorded with
\* status success, the firing that delivered the apology text included.
C38_BriefNeverEmpty ==
    /\ firing.pc \in {"deliver", "returned"} => HasText(firing.content)
    /\ firing.pc = "returned" => hookLog # <<>>
    /\ callback[1].pc = "log" =>
            (callback[1].status = "success") = hookLog[Len(hookLog)].returned
    /\ \A i \in WrittenNow :
            /\ hookLog # <<>>
            /\ (brief_usage[i].status = "success") = hookLog[Len(hookLog)].returned

\* the apology text has been delivered and the firing is recorded as a
\* success
C38_Witness ==
    /\ firing.pc = "returned"
    /\ firing.source = "apology"
    /\ firing.content.kind = "apology"
    /\ hookLog # <<>>
    /\ hookLog[1].returned
    /\ \E i \in WrittenNow : brief_usage[i].status = "success"

(***************************************************************************)
(* Trigger converter: convertToCronTime (scheduler.js 20-46) on its own    *)
(***************************************************************************)
\* the local time hh:mm as the registry stores it
TimeString(h, m) ==
    <<DigitChar(h \div 10), DigitChar(h % 10), ":", DigitChar(m \div 10), DigitChar(m % 10)>>

\* every local time of a day
AllTimes == {TimeString(h, m) : h \in 0..23, m \in 0..59}

\* instants at which New York is at UTC-4: noon and 23:30 UTC of 2025-07-01
SummerInstants == {StartInstant, StartInstant + 41400}

\* instants at which New York is at UTC-5: noon and 03:00 UTC of 2025-01-15
WinterInstants == {WinterInstant, WinterInstant - 32400}

\* createUserCronJob calls convertToCronTime(user.delivery_time,
\* user.timezone) at the current instant
ConvertToCronTime ==
    /\ ~conv.done
    /\ conv' = [conv EXCEPT
            !.cron = convertToCronTime(conv.timePreference, conv.timezone, now),
            !.done = TRUE]
    /\ UNCHANGED <<now, outsideConv>>

InitCron ==
    /\ now \in SummerInstants \cup WinterInstants
    /\ FireAtRest
    /\ SyncAtRest
    /\ GenAtRest
    /\ PipeAtRest
    /\ QueueAtRest
    /\ HookAtRest
    /\ FiringAtRest
    /\ TestAtRest
    /\ \E timezone \in Zones \cup OtherZones, timePreference \in AllTimes :
        conv = [timezone |-> timezone, timePreference |-> timePreference,
                cron |-> <<>>, done |-> FALSE]

NextCron == ConvertToCronTime

SpecCron == InitCron /\ [][NextCron]_vars

(***************************************************************************)
(* Claims about the trigger converter                                      *)
(***************************************************************************)
\* C17: for every timezone (whole-hour and other offsets) and local time
\* hh:mm, the UTC hour and minute that convertToCronTime returns, taken on
\* today's date and converted back to the timezone, give hh:mm again.
C17_RoundTrip ==
    conv.done =>
        FormatHHmm(conv.timezone,
                   StartOfUtcDay(now) + conv.cron[2] * 3600 + conv.cron[1] * 60)
            = conv.timePreference

\* 08:00 in Asia/Kathmandu (UTC+5:45) has been converted to 02:15 UTC
C17_Witness ==
    /\ conv.done
    /\ conv.timezone = "Asia/Kathmandu"
    /\ conv.timePreference = T0800
    /\ conv.cron = <<15, 2>>

\* C18: for America/New_York and 08:00 convertToCronTime yields 12:00 UTC
\* when evaluated on a date at UTC-4 and 13:00 UTC when evaluated on a date
\* at UTC-5: the offset is the one of the date of the evaluation.
C18_NewYorkEightOClock ==
    (conv.done /\ conv.timezone = "America/New_York" /\ conv.timePreference = T0800) =>
        /\ now \in SummerInstants => conv.cron = <<0, 12>>
        /\ now \in WinterInstants => conv.cron = <<0, 13>>

\* 08:00 New York has been converted on a winter date
C18_Witness ==
    /\ conv.done
    /\ conv.timezone = "America/New_York"
    /\ conv.timePreference = T0800
    /\ now = WinterInstant
    /\ conv.cron = <<0, 13>>

(***************************************************************************)
(* Claims about shutdown                                                   *)
(***************************************************************************)
\* C19: on shutdown every active trigger is stopped and activeTasks is empty
\* before the process exits: when the process has exited, no trigger was
\* left running and the Map is empty.
C19_AllStoppedBeforeExit ==
    proc.state = "exited" => (tasks = {} /\ activeTasks = << >>)

\* C20: once shutdown has begun (stopAllTasks has run), no trigger is
\* installed or started: no step taken after it changes activeTasks or adds
\* a running task.
C20_NoTriggerAfterShutdown ==
    [][proc.state # "running" =>
        (activeTasks' = activeTasks /\ tasks' \subseteq tasks)]_vars

\* shutdown has run while a sync cycle was in progress, after a cycle had
\* installed triggers
C20_Witness ==
    /\ proc.state = "exited"
    /\ completed
    /\ \E c \in SyncCalls : sync[c].pc = "resume" /\ sync[c].users # {}
    /\ activeTasks = << >>

====
